---- MODULE Spec2Model ----
(***************************************************************************)
(* provider-ansible: the shard predicate (pkg shardutil), the shard lease  *)
(* coordinator (connector.acquireLease / acquireAndHoldShard), the         *)
(* reconciliation policy of the AnsibleRun controller (external.Observe,   *)
(* Update, Delete on top of ansible.Runner), the failure diagnosis of a    *)
(* run's job events (extractFailureReason) and Runner.Run with the         *)
(* ansible-runner child process it starts.                                 *)
(*                                                                         *)
(* The components share no state.  Each has its own variables, its own     *)
(* initial predicate and next-state relation, and is checked under its own *)
(* specification (SpecShard, SpecLease, SpecRecon, SpecDiag, SpecProc,     *)
(* SpecFile for Runner.WriteExtraVar and the env/extravars file);          *)
(* SpecDeletion puts the controller under the reconciler's dispatch for a  *)
(* deleted object, with fairness, and SpecDispatch under its dispatch for  *)
(* any object; SpecContended follows one replica's acquisition loop among  *)
(* the leases of the others; SpecTimely runs the replicas of a deployment  *)
(* on schedule, with fairness; SpecHandlers calls Observe and Delete on a  *)
(* client of any policy name; Spec is the interleaving of the components.  *)
(***************************************************************************)
EXTENDS Integers, Sequences, FiniteSets, TLC

VARIABLES
    \* -- shardutil: one event going through the installed predicate
    shName,     \* obj.GetName() of the event's object, a sequence of bytes
    shTotal,    \* totalShards (uint32)
    shTarget,   \* targetShard (uint32)
    shKind,     \* which of the predicate's four funcs the event goes to
    shDone,     \* the predicate has answered for the current event
    shHash,     \* the helper's local hash, hashString(obj.GetName())
    shRes,      \* its answer (FALSE until it has answered)
    \* -- the shard lease coordinator
    leases,     \* the Lease objects of the API server, by shard index
    pc,         \* where each replica's process is
    idx,        \* the loop variable i of acquireAndHoldShard (then currentShard)
    pend,       \* the write an acquireLease in progress is about to send
    fresh,      \* the resourceVersion the replica read is still the current one
    timer,      \* seconds until the pending time.Sleep / time.After fires
    cancelled,  \* s.ProviderCtx is cancelled (s.ProviderCancel was called)
    sig,        \* the signal handler's context is done
    lastErr,    \* what the replica's last acquireLease returned
    filter,     \* the event filter Setup gave each replica's controller
    \* -- the AnsibleRun controller, one managed object
    mr,           \* the AnsibleRun object in the API server
    cr,           \* the copy of it the reconcile under way works on
    stale,        \* the object was written by someone else since cr was read
    rpc,          \* where the reconcile is
    runnerPolicy, \* Runner.AnsibleRunPolicy.Name of the external client
    checkMode,    \* Runner.checkMode of the external client
    extraVars,    \* ansible_provider_meta.<name>.state in env/extravars
    run,          \* the engine run in progress
    ret,          \* what the last call returned to the reconciler
    applied,      \* history: the desired values an apply run has succeeded for
    \* -- the failure diagnosis of a run's job events
    files,      \* the files of the job_events directory, or that it is unreadable
    evts,       \* what parseEvents made of them
    diag,       \* what extractFailureReason returned
    dpos,       \* where the diagnosis is
    \* -- Runner.Run and its ansible-runner child process
    runner,     \* the Runner's fields Run reads
    osEnviron,  \* os.Environ() of the provider process
    rpos,       \* where Run is
    dc,         \* the exec.Cmd Run builds
    ids,        \* the UUIDs generateUUID has handed out
    child,      \* the child process
    ctx,        \* the context of the command: live or done
    sent,       \* the signals sent to the child, in order
    elapsed,    \* seconds since the command's Cancel was called
    osStdout,   \* what the child wrote to the provider's stdout
    osStderr,   \* what the child wrote to the provider's stderr
    stdoutBuf,  \* Run's local stdoutBuf
    out,        \* what Run returned
    id,         \* Run's local id
    diagnosed,  \* the directory Run had its failure reason extracted from
    \* -- Runner.WriteExtraVar and the env/extravars file
    evFile,     \* the file env/extravars
    evArg,      \* the extraVar of the last call
    evErr,      \* what the last call returned
    evCalls     \* the calls so far

shardVars == <<shName, shTotal, shTarget, shKind, shDone, shHash, shRes>>

leaseVars ==
    <<leases, pc, idx, pend, fresh, timer, cancelled, sig, lastErr, filter>>

reconVars ==
    <<mr, cr, stale, rpc, runnerPolicy, checkMode, extraVars, run, ret, applied>>

diagVars == <<files, evts, diag, dpos>>

procVars == <<runner, osEnviron, rpos, dc, ids, child, ctx, sent, elapsed,
              osStdout, osStderr, stdoutBuf, out, id, diagnosed>>

fileVars == <<evFile, evArg, evErr, evCalls>>

vars == <<shardVars, leaseVars, reconVars, diagVars, procVars, fileVars>>

\* What an action of one component leaves alone.
notShard == <<leaseVars, reconVars, diagVars, procVars, fileVars>>

notLease == <<shardVars, reconVars, diagVars, procVars, fileVars>>

notRecon == <<shardVars, leaseVars, diagVars, procVars, fileVars>>

notDiag == <<shardVars, leaseVars, reconVars, procVars, fileVars>>

notProc == <<shardVars, leaseVars, reconVars, diagVars, fileVars>>

notFile == <<shardVars, leaseVars, reconVars, diagVars, procVars>>

\* ------------------------------------------------------------------------
\* Part 1.  shardutil: hashString, isResourceForShardHelper, IsResourceForShard
\* ------------------------------------------------------------------------

\* Bounds of the shard model.
MaxNameLen == 2
MaxShards == 3

\* The bytes object names are drawn from: 'a', 'b', '1'.
Alphabet == {97, 98, 49}

Names == UNION {[1..n -> Alphabet] : n \in 0..MaxNameLen}

EventKinds == {"Create", "Update", "Delete", "Generic"}

\* A uint32 is kept as two 16-bit limbs <<hi, lo>>, so that no value
\* formed on the way exceeds a signed 32-bit integer.
Limb == 65536

\* hash/fnv offset32 = 2166136261 = 0x811C9DC5
Offset32Hi == 33052
Offset32Lo == 40389
\* hash/fnv prime32 = 16777619 = 0x01000193 = 2^24 + 403
Prime32Low == 403
Prime32Shift == 24

RECURSIVE XorBits(_, _, _)
\* a XOR b on the low n bits.
XorBits(a, b, n) ==
    IF n = 0 THEN 0
    ELSE (((a % 2) + (b % 2)) % 2) + 2 * XorBits(a \div 2, b \div 2, n - 1)

\* hash ^= uint32(c): the byte lands in the low 8 bits of the low limb.
XorByte(h, c) ==
    <<h[1], (h[2] \div 256) * 256 + XorBits(h[2] % 256, c, 8)>>

\* hash *= prime32 (mod 2^32), with prime32 = 2^Prime32Shift + Prime32Low.
\* (h << 24) mod 2^32 keeps the low 8 bits of lo, moved to the top of hi.
MulPrime(h) ==
    LET lowProd == h[2] * Prime32Low
        shifted == (h[2] % (2 ^ (32 - Prime32Shift))) * (2 ^ (Prime32Shift - 16))
    IN  << (h[1] * Prime32Low + (lowProd \div Limb) + shifted) % Limb,
           lowProd % Limb >>

\* A plausible slip: FNV-1 instead of FNV-1a (multiply, then xor).
Sum32WriteByteFNV1(h, c) == XorByte(MulPrime(h), c)

\* One byte of (*sum32a).Write: xor, then multiply.
Sum32aWriteByte(h, c) == MulPrime(XorByte(h, c))

RECURSIVE hashString(_)
\* h := fnv.New32a(); h.Write([]byte(s)); return h.Sum32()
hashString(s) ==
    IF Len(s) = 0 THEN <<Offset32Hi, Offset32Lo>>
    ELSE Sum32aWriteByte(hashString(SubSeq(s, 1, Len(s) - 1)), s[Len(s)])

\* hash % totalShards on the limbs, without forming the 32-bit value.
ModU32(h, n) == ((h[1] % n) * (Limb % n) + (h[2] % n)) % n

\* A plausible slip: comparing the shard with <= instead of ==.
isResourceForShardHelperLe(name, targetShard, totalShards) ==
    ModU32(hashString(name), totalShards) <= targetShard

isResourceForShardHelper(name, targetShard, totalShards) ==
    LET hash == hashString(name)
        shard == ModU32(hash, totalShards)
    IN  shard = targetShard

\* A slip: only CreateFunc set; predicate.Funcs lets every event of a kind
\* whose func is nil pass.
IsResourceForShardCreateOnly(kind, name, targetShard, totalShards) ==
    kind = "Create" => isResourceForShardHelper(name, targetShard, totalShards)

\* An event carries the object (Object, or ObjectNew for an update).
\* predicate.Funcs: CreateFunc, UpdateFunc, DeleteFunc, GenericFunc.
IsResourceForShard(kind, name, targetShard, totalShards) ==
    CASE kind = "Create"  -> isResourceForShardHelper(name, targetShard, totalShards)
      [] kind = "Update"  -> isResourceForShardHelper(name, targetShard, totalShards)
      [] kind = "Delete"  -> isResourceForShardHelper(name, targetShard, totalShards)
      [] kind = "Generic" -> isResourceForShardHelper(name, targetShard, totalShards)

ShardInit ==
    /\ shName \in Names
    /\ shTotal \in 1..MaxShards
    /\ shTarget \in 0..MaxShards
    /\ shKind \in EventKinds
    /\ shDone = FALSE
    /\ shHash = <<0, 0>>
    /\ shRes = FALSE

\* The controller hands the current event to the installed filter.
FilterEvent ==
    /\ ~shDone
    /\ shDone' = TRUE
    /\ shHash' = hashString(shName)
    /\ shRes' = IsResourceForShard(shKind, shName, shTarget, shTotal)
    /\ UNCHANGED <<shName, shTotal, shTarget, shKind, notShard>>

\* The next event arrives; the filter (targetShard, totalShards) stays as
\* installed by Setup.
NextEvent ==
    /\ shDone
    /\ shName' \in Names
    /\ shKind' \in EventKinds
    /\ shDone' = FALSE
    /\ shHash' = <<0, 0>>
    /\ shRes' = FALSE
    /\ UNCHANGED <<shTotal, shTarget, notShard>>

ShardNext == FilterEvent \/ NextEvent

\* ------------------------------------------------------------------------
\* Part 2.  The shard lease coordinator: connector.acquireLease,
\* releaseLease and acquireAndHoldShard with its renewal goroutine.
\*
\* Time is kept relative: a Lease carries age = time.Since(RenewTime), a
\* sleeping replica the seconds left on its timer, and Tick moves both.
\* Ages stop at leaseDurationSeconds: acquireLease only ever compares an
\* age with the lease duration, and every Lease is written with that one.
\* ------------------------------------------------------------------------

\* Bounds of the lease model.
NumReplicas == 2
ReplicasCount == 2
\* src constants (in seconds)
leaseDurationSeconds == 30
leaseRenewalInterval == 5
leaseAcquireAttemptInterval == 5

\* The clock advances in steps of the shortest interval the code waits.
TickStep == leaseRenewalInterval

Replicas == 1..NumReplicas
Shards == 0..(ReplicasCount - 1)

NoLease == [exists |-> FALSE, holder |-> 0, age |-> 0, dur |-> 0]
NoPend == [kind |-> "none", age |-> 0]

Older(age) ==
    IF age + TickStep < leaseDurationSeconds THEN age + TickStep
    ELSE leaseDurationSeconds

Sooner(t) == IF t > TickStep THEN t - TickStep ELSE 0

\* The replica's goroutine exists: the shard was acquired, the signal
\* handler is installed, Setup went on to start the controller.
Acquired(r) == pc[r] \in {"hold", "renewW", "released", "stopped"}

Live(r) == pc[r] \notin {"exited", "terminated"}

\* Replica r owns index i: acquireAndHoldShard returned i, and neither was
\* the provider context cancelled nor did the process exit.
Owns(r, i) == Acquired(r) /\ idx[r] = i /\ ~cancelled[r]

\* A plausible slip: the holder test inverted (== for !=).
HeldByOtherEq(lease, replicaID) ==
    /\ lease.holder = replicaID
    /\ lease.age < lease.dur

\* A plausible slip: the boundary instant counted as still held.
HeldByOtherLe(lease, replicaID) ==
    /\ lease.holder # replicaID
    /\ lease.age <= lease.dur

\* "Check if the lease is held by another replica and is not expired":
\* *HolderIdentity != c.replicaID and time.Since(RenewTime) < duration.
HeldByOther(lease, replicaID) ==
    /\ lease.holder # replicaID
    /\ lease.age < lease.dur

\* A slip: the renewal interval given as the lease duration.
NewLeaseShortLived(replicaID, age) ==
    [exists |-> TRUE, holder |-> replicaID, age |-> age,
     dur |-> leaseRenewalInterval]

\* The Lease acquireLease writes: holder, RenewTime = the time.Now() taken
\* `age` seconds ago, LeaseDurationSeconds.
NewLease(replicaID, age) ==
    [exists |-> TRUE, holder |-> replicaID, age |-> age,
     dur |-> leaseDurationSeconds]

\* A slip: the holder test left out, every record found is updated.
AcquireLeaseGetNoHolderTest(r, i, api) ==
    IF ~api \/ cancelled[r] THEN [err |-> "api", pend |-> NoPend]
    ELSE IF ~leases[i].exists
         THEN [err |-> "", pend |-> [kind |-> "create", age |-> 0]]
    ELSE [err |-> "", pend |-> [kind |-> "update", age |-> 0]]

\* The first half of acquireLease(ctx, kube, i) by r: kube.Get and the
\* decision taken on what it returned.  api is whether the API server
\* served the request; a cancelled ctx fails it.  The result is the error
\* returned ("api", "held") or "" with the write to send next, which
\* carries RenewTime = time.Now().
AcquireLeaseGet(r, i, api) ==
    IF ~api \/ cancelled[r] THEN [err |-> "api", pend |-> NoPend]
    ELSE IF ~leases[i].exists
         THEN [err |-> "", pend |-> [kind |-> "create", age |-> 0]]
    ELSE IF HeldByOther(leases[i], r)
         THEN [err |-> "held", pend |-> NoPend]
    ELSE [err |-> "", pend |-> [kind |-> "update", age |-> 0]]

\* The second half: kube.Create or kube.Update.  A create of a record that
\* exists by now, or an update carrying a resourceVersion that is no longer
\* current, is rejected by the API server.
AcquireLeaseWriteErr(r, i, api) ==
    IF ~api \/ cancelled[r] THEN "api"
    ELSE IF pend[r].kind = "create" /\ leases[i].exists THEN "conflict"
    ELSE IF pend[r].kind = "update" /\ ~fresh[r] THEN "conflict"
    ELSE "nil"

\* A slip: no resourceVersion sent, a write outdates nobody's read.
OutdateNobody(r, i) == [q \in Replicas |-> IF q = r THEN FALSE ELSE fresh[q]]

\* A write by r to the Lease of index i gives it a new resourceVersion:
\* what any other replica read of it is outdated; r's own call is over.
Outdate(r, i) ==
    [q \in Replicas |-> IF q = r \/ idx[q] = i THEN FALSE ELSE fresh[q]]

\* No controller has been built: the replica has no event filter.
NoFilter == [installed |-> FALSE, targetShard |-> 0, totalShards |-> 0]

\* A slip: currentShard shadowed in the loop, Setup sees its zero value.
WithEventFilterOfZero(currentShard) ==
    [installed |-> TRUE, targetShard |-> 0, totalShards |-> ReplicasCount]

\* Setup: WithEventFilter(shardutil.IsResourceForShard(currentShard,
\* s.ReplicasCount)), the arguments the predicate is built with.
WithEventFilter(currentShard) ==
    [installed |-> TRUE, targetShard |-> currentShard, totalShards |-> ReplicasCount]

LeaseInit ==
    /\ leases = [i \in Shards |-> NoLease]
    /\ pc = [r \in Replicas |-> "scan"]
    /\ idx = [r \in Replicas |-> 0]
    /\ pend = [r \in Replicas |-> NoPend]
    /\ fresh = [r \in Replicas |-> FALSE]
    /\ timer = [r \in Replicas |-> 0]
    /\ cancelled = [r \in Replicas |-> FALSE]
    /\ sig = [r \in Replicas |-> FALSE]
    /\ lastErr = [r \in Replicas |-> "nil"]
    /\ filter = [r \in Replicas |-> NoFilter]

\* TickStep seconds pass.  No replica is bound to act before they do: a
\* process may be descheduled and an API request may take long.
Tick ==
    /\ leases' = [i \in Shards |->
                    IF leases[i].exists
                    THEN [leases[i] EXCEPT !.age = Older(leases[i].age)]
                    ELSE leases[i]]
    /\ pend' = [r \in Replicas |->
                    IF pend[r].kind # "none"
                    THEN [pend[r] EXCEPT !.age = Older(pend[r].age)]
                    ELSE pend[r]]
    /\ timer' = [r \in Replicas |-> Sooner(timer[r])]
    /\ UNCHANGED <<pc, idx, fresh, cancelled, sig, lastErr, filter, notLease>>

\* acquireAndHoldShard, loop body: acquireLease(ctx, kube, i), kube.Get.
\* On an error the loop logs and sleeps leaseAcquireAttemptInterval.
ScanGetWith(r, api) ==
    /\ pc[r] = "scan"
    /\ LET g == AcquireLeaseGet(r, idx[r], api) IN
        IF g.err = ""
        THEN /\ pc' = [pc EXCEPT ![r] = "scanW"]
             /\ pend' = [pend EXCEPT ![r] = g.pend]
             /\ fresh' = [fresh EXCEPT ![r] = TRUE]
             /\ UNCHANGED <<timer, lastErr>>
        ELSE /\ pc' = [pc EXCEPT ![r] = "sleep"]
             /\ lastErr' = [lastErr EXCEPT ![r] = g.err]
             /\ timer' = [timer EXCEPT ![r] = leaseAcquireAttemptInterval]
             /\ UNCHANGED <<pend, fresh>>
    /\ UNCHANGED <<leases, idx, cancelled, sig, filter, notLease>>

ScanGet(r) == \E api \in BOOLEAN : ScanGetWith(r, api)

\* acquireAndHoldShard, loop body: the acquireLease's kube.Create/Update.
\* On success currentShard = i, the renewal goroutine starts (it installs
\* the signal handler and waits leaseRenewalInterval), the loop is left and
\* Setup builds the controller with the event filter of currentShard.
ScanWriteWith(r, api) ==
    /\ pc[r] = "scanW"
    /\ LET e == AcquireLeaseWriteErr(r, idx[r], api) IN
        /\ lastErr' = [lastErr EXCEPT ![r] = e]
        /\ IF e = "nil"
           THEN /\ leases' = [leases EXCEPT ![idx[r]] = NewLease(r, pend[r].age)]
                /\ fresh' = Outdate(r, idx[r])
                /\ pc' = [pc EXCEPT ![r] = "hold"]
                /\ timer' = [timer EXCEPT ![r] = leaseRenewalInterval]
                /\ filter' = [filter EXCEPT ![r] = WithEventFilter(idx[r])]
           ELSE /\ pc' = [pc EXCEPT ![r] = "sleep"]
                /\ timer' = [timer EXCEPT ![r] = leaseAcquireAttemptInterval]
                /\ fresh' = [fresh EXCEPT ![r] = FALSE]
                /\ UNCHANGED <<leases, filter>>
    /\ pend' = [pend EXCEPT ![r] = NoPend]
    /\ UNCHANGED <<idx, cancelled, sig, notLease>>

ScanWrite(r) == \E api \in BOOLEAN : ScanWriteWith(r, api)

\* A slip: the scan is not started again, the last index is tried for ever.
NextIndexOnce(i) == IF i + 1 < ReplicasCount THEN i + 1 ELSE i

\* i++ of the inner for, and past the last index the outer for starts
\* the scan again at 0.
NextIndex(i) == IF i + 1 < ReplicasCount THEN i + 1 ELSE 0

\* time.Sleep(leaseAcquireAttemptInterval) returns and the loop goes on.
Wake(r) ==
    /\ pc[r] = "sleep"
    /\ timer[r] = 0
    /\ pc' = [pc EXCEPT ![r] = "scan"]
    /\ idx' = [idx EXCEPT ![r] = NextIndex(idx[r])]
    /\ UNCHANGED <<leases, pend, fresh, timer, cancelled, sig, lastErr, filter, notLease>>

\* A plausible slip: a failed renewal is only logged.
RenewFailedLogOnly(r) == cancelled

\* The renewal goroutine's error branch: s.ProviderCancel().
RenewFailed(r) == [cancelled EXCEPT ![r] = TRUE]

\* Renewal goroutine, case <-time.After(leaseRenewalInterval): the
\* acquireLease's kube.Get.  An error cancels the provider context; the
\* loop goes on either way, with a new time.After.
RenewGetWith(r, api) ==
    /\ pc[r] = "hold"
    /\ timer[r] = 0
    /\ LET g == AcquireLeaseGet(r, idx[r], api) IN
        IF g.err = ""
        THEN /\ pc' = [pc EXCEPT ![r] = "renewW"]
             /\ pend' = [pend EXCEPT ![r] = g.pend]
             /\ fresh' = [fresh EXCEPT ![r] = TRUE]
             /\ UNCHANGED <<timer, lastErr, cancelled>>
        ELSE /\ lastErr' = [lastErr EXCEPT ![r] = g.err]
             /\ cancelled' = RenewFailed(r)
             /\ timer' = [timer EXCEPT ![r] = leaseRenewalInterval]
             /\ UNCHANGED <<pc, pend, fresh>>
    /\ UNCHANGED <<leases, idx, sig, filter, notLease>>

RenewGet(r) == \E api \in BOOLEAN : RenewGetWith(r, api)

\* Renewal goroutine: the acquireLease's kube.Create/Update and what the
\* loop does with the result.
RenewWriteWith(r, api) ==
    /\ pc[r] = "renewW"
    /\ LET e == AcquireLeaseWriteErr(r, idx[r], api) IN
        /\ lastErr' = [lastErr EXCEPT ![r] = e]
        /\ IF e = "nil"
           THEN /\ leases' = [leases EXCEPT ![idx[r]] = NewLease(r, pend[r].age)]
                /\ fresh' = Outdate(r, idx[r])
                /\ UNCHANGED cancelled
           ELSE /\ cancelled' = RenewFailed(r)
                /\ fresh' = [fresh EXCEPT ![r] = FALSE]
                /\ UNCHANGED leases
    /\ pc' = [pc EXCEPT ![r] = "hold"]
    /\ pend' = [pend EXCEPT ![r] = NoPend]
    /\ timer' = [timer EXCEPT ![r] = leaseRenewalInterval]
    /\ UNCHANGED <<idx, sig, filter, notLease>>

RenewWrite(r) == \E api \in BOOLEAN : RenewWriteWith(r, api)

\* The process of r has ended: only its Lease, if any, is left behind.
Ended(r, how) ==
    /\ pc' = [pc EXCEPT ![r] = how]
    /\ idx' = [idx EXCEPT ![r] = 0]
    /\ pend' = [pend EXCEPT ![r] = NoPend]
    /\ fresh' = [fresh EXCEPT ![r] = FALSE]
    /\ timer' = [timer EXCEPT ![r] = 0]
    /\ cancelled' = [cancelled EXCEPT ![r] = FALSE]
    /\ sig' = [sig EXCEPT ![r] = FALSE]
    /\ lastErr' = [lastErr EXCEPT ![r] = "nil"]
    /\ filter' = [filter EXCEPT ![r] = NoFilter]

Gone(r) == Ended(r, "exited")

\* A slip: the handler taken to be installed from the start of the process.
HandlerInstalledAtStart(r) == TRUE

\* ctrl.SetupSignalHandler() has been called: the renewal goroutine does
\* so when it starts, and nothing before it.
HandlerInstalled(r) == Acquired(r)

\* SIGINT/SIGTERM reaches the process.  Before the goroutine has installed
\* ctrl.SetupSignalHandler the signal terminates the process, nothing
\* having asked for its delivery; after, the first one closes the
\* handler's context and a second one is os.Exit(1).
Signal(r) ==
    /\ Live(r)
    /\ IF HandlerInstalled(r) /\ ~sig[r]
       THEN /\ sig' = [sig EXCEPT ![r] = TRUE]
            /\ UNCHANGED <<pc, idx, pend, fresh, timer, cancelled, lastErr, filter>>
       ELSE IF HandlerInstalled(r) THEN Gone(r)
       ELSE Ended(r, "terminated")
    /\ UNCHANGED <<leases, notLease>>

\* A slip: the record is left to expire.
ReleaseLeaseLeftToExpire(r, api) ==
    /\ pc[r] = "hold"
    /\ sig[r]
    /\ pc' = [pc EXCEPT ![r] = "released"]
    /\ timer' = [timer EXCEPT ![r] = 0]
    /\ UNCHANGED <<leases, fresh, idx, pend, cancelled, sig, lastErr, filter, notLease>>

\* Renewal goroutine, case <-sigHandler.Done(): releaseLease, which is
\* kube.Delete of the Lease named after the index (an error is logged).
ReleaseLeaseWith(r, api) ==
    /\ pc[r] = "hold"
    /\ sig[r]
    /\ IF api /\ ~cancelled[r] /\ leases[idx[r]].exists
       THEN /\ leases' = [leases EXCEPT ![idx[r]] = NoLease]
            /\ fresh' = Outdate(r, idx[r])
       ELSE UNCHANGED <<leases, fresh>>
    /\ pc' = [pc EXCEPT ![r] = "released"]
    /\ timer' = [timer EXCEPT ![r] = 0]
    /\ UNCHANGED <<idx, pend, cancelled, sig, lastErr, filter, notLease>>

ReleaseLease(r) == \E api \in BOOLEAN : ReleaseLeaseWith(r, api)

\* ... then s.ProviderCancel() and return.
ReleaseCancel(r) ==
    /\ pc[r] = "released"
    /\ cancelled' = [cancelled EXCEPT ![r] = TRUE]
    /\ pc' = [pc EXCEPT ![r] = "stopped"]
    /\ UNCHANGED <<leases, idx, pend, fresh, timer, sig, lastErr, filter, notLease>>

\* main: mgr.Start(providerCtx) returns once the context is cancelled, and
\* the process ends.
Exit(r) ==
    /\ Live(r)
    /\ cancelled[r]
    /\ Gone(r)
    /\ UNCHANGED <<leases, notLease>>

\* The process is killed (SIGKILL, node loss): nothing is released.
Crash(r) ==
    /\ Live(r)
    /\ ~cancelled[r]
    /\ Gone(r)
    /\ UNCHANGED <<leases, notLease>>

LeaseNext ==
    \/ Tick
    \/ \E r \in Replicas :
        \/ ScanGet(r)
        \/ ScanWrite(r)
        \/ Wake(r)
        \/ RenewGet(r)
        \/ RenewWrite(r)
        \/ Signal(r)
        \/ ReleaseLease(r)
        \/ ReleaseCancel(r)
        \/ Exit(r)
        \/ Crash(r)

\* ------------------------------------------------------------------------
\* Part 2b.  acquireAndHoldShard under contention.
\*
\* One replica calls acquireAndHoldShard while records of the indices are
\* held by the other replicas of the deployment, which stand behind one
\* holder identity here (the outsider).  The outsider may renew a record
\* for ever, stop renewing it, or release it.  Every request of the
\* scanning replica is served: what keeps its acquireLease from succeeding
\* is the holder test and a conflicting write only.  What the replica does
\* once it has an index is left out.
\* ------------------------------------------------------------------------

\* The holder identity of the other replicas.
Outsider == NumReplicas + 1

\* The replica whose call is followed.
Scanner == CHOOSE r \in Replicas : \A q \in Replicas : r <= q

\* RenewTime of a record that was there at the start: just written, or
\* written one renewal before it expires.
StartAges == {0, leaseDurationSeconds - leaseRenewalInterval}

\* The outsider's renewal loop writes its record again.
OutsiderRenews(i) ==
    /\ leases[i].exists /\ leases[i].holder = Outsider
    /\ leases' = [leases EXCEPT ![i] = NewLease(Outsider, 0)]
    /\ fresh' = Outdate(Outsider, i)
    /\ UNCHANGED <<pc, idx, pend, timer, cancelled, sig, lastErr, filter, notLease>>

\* The outsider shuts down and releases its record.
OutsiderReleases(i) ==
    /\ leases[i].exists /\ leases[i].holder = Outsider
    /\ leases' = [leases EXCEPT ![i] = NoLease]
    /\ fresh' = Outdate(Outsider, i)
    /\ UNCHANGED <<pc, idx, pend, timer, cancelled, sig, lastErr, filter, notLease>>

ContendedInit ==
    /\ leases \in [Shards -> {NoLease} \cup {NewLease(Outsider, a) : a \in StartAges}]
    /\ pc = [r \in Replicas |-> IF r = Scanner THEN "scan" ELSE "exited"]
    /\ idx = [r \in Replicas |-> 0]
    /\ pend = [r \in Replicas |-> NoPend]
    /\ fresh = [r \in Replicas |-> FALSE]
    /\ timer = [r \in Replicas |-> 0]
    /\ cancelled = [r \in Replicas |-> FALSE]
    /\ sig = [r \in Replicas |-> FALSE]
    /\ lastErr = [r \in Replicas |-> "nil"]
    /\ filter = [r \in Replicas |-> NoFilter]

ServedScanGet(r) == ScanGetWith(r, TRUE)

ServedScanWrite(r) == ScanWriteWith(r, TRUE)

ContendedNext ==
    \/ Tick
    \/ \E r \in Replicas :
        \/ ServedScanGet(r)
        \/ ServedScanWrite(r)
        \/ Wake(r)
    \/ \E i \in Shards :
        \/ OutsiderRenews(i)
        \/ OutsiderReleases(i)

\* Time passes, and the goroutine that runs acquireAndHoldShard is
\* scheduled: a request it can send is sent and answered, a sleep that is
\* over returns.
ContendedFairness ==
    /\ WF_vars(Tick)
    /\ \A r \in Replicas :
          WF_vars(ServedScanGet(r)) /\ WF_vars(ServedScanWrite(r)) /\ WF_vars(Wake(r))

\* ------------------------------------------------------------------------
\* Part 2c.  The replicas of one deployment, on schedule.
\*
\* ReplicasCount replicas start together; records of an earlier rollout,
\* whose holders are gone, may be in place.  No replica is shut down or
\* crashes, and every request is served.  The replicas keep their
\* schedule: a renewal that is due is sent before the clock moves on, and
\* a write lands no later than TickStep seconds after the read it follows.
\* How long a replica takes between two attempts of its scan is left open.
\* ------------------------------------------------------------------------

\* r has a step to take before the clock may move on.
Due(r) ==
    \/ pc[r] = "hold" /\ timer[r] = 0
    \/ pc[r] \in {"scanW", "renewW"} /\ pend[r].age >= TickStep

TimelyInit ==
    /\ leases \in [Shards -> {NoLease} \cup {NewLease(Outsider, a) : a \in StartAges}]
    /\ pc = [r \in Replicas |-> "scan"]
    /\ idx = [r \in Replicas |-> 0]
    /\ pend = [r \in Replicas |-> NoPend]
    /\ fresh = [r \in Replicas |-> FALSE]
    /\ timer = [r \in Replicas |-> 0]
    /\ cancelled = [r \in Replicas |-> FALSE]
    /\ sig = [r \in Replicas |-> FALSE]
    /\ lastErr = [r \in Replicas |-> "nil"]
    /\ filter = [r \in Replicas |-> NoFilter]

TimelyTick == (\A r \in Replicas : ~Due(r)) /\ Tick

ServedRenewGet(r) == RenewGetWith(r, TRUE)

ServedRenewWrite(r) == RenewWriteWith(r, TRUE)

TimelyNext ==
    \/ TimelyTick
    \/ \E r \in Replicas :
        \/ ServedScanGet(r)
        \/ ServedScanWrite(r)
        \/ Wake(r)
        \/ ServedRenewGet(r)
        \/ ServedRenewWrite(r)

\* Time passes and every goroutine is scheduled: a request that can be
\* sent is sent and answered, a sleep that is over returns.
TimelyFairness ==
    /\ WF_vars(TimelyTick)
    /\ \A r \in Replicas :
          /\ WF_vars(ServedScanGet(r)) /\ WF_vars(ServedScanWrite(r))
          /\ WF_vars(Wake(r))
          /\ WF_vars(ServedRenewGet(r)) /\ WF_vars(ServedRenewWrite(r))

\* ------------------------------------------------------------------------
\* Part 3.  The AnsibleRun controller: connector.Connect with
\* Parameters.Init, and external.Observe / Create / Update / Delete on
\* top of ansible.Runner, for one managed object.
\*
\* mr is the AnsibleRun object as the API server stores it, cr the copy a
\* reconcile works on.  A handler that starts the engine is two steps: up
\* to the start of the child process, and from its exit to the return.
\* ------------------------------------------------------------------------

\* Bounds of the controller model.
NumParams == 2
NumHosts == 2
MaxChanged == 1

\* The values of spec.forProvider.
Params == 1..NumParams

\* The values of the run-policy annotation: absent, the two supported
\* names, and an unsupported one.
Policies == {"", "ObserveAndDelete", "CheckWhenObserve", "LOL"}

\* The stats of a parsed results stream: per host, its changed count.
StatsSet == UNION {[1..n -> 0..MaxChanged] : n \in 0..NumHosts}

\* lastApplied = 0 stands for "no last-applied annotation".
NoObject ==
    [present |-> FALSE, deleted |-> FALSE, desired |-> 1, lastApplied |-> 0,
     policy |-> "", synced |-> "Unknown", ready |-> "Unknown", message |-> ""]

NewObject(p, a) ==
    [present |-> TRUE, deleted |-> FALSE, desired |-> p, lastApplied |-> 0,
     policy |-> a, synced |-> "Unknown", ready |-> "Unknown", message |-> ""]

NoCR ==
    [deleted |-> FALSE, desired |-> 1, synced |-> "Unknown", ready |-> "Unknown",
     message |-> ""]

\* before is the last-applied annotation the API server stored when the
\* handler that started the run was called.
NoRun == [op |-> "none", check |-> FALSE, marker |-> "none", param |-> 0, before |-> 0]

Returned(op, err, exists, upToDate, stats) ==
    [op |-> op, err |-> err, exists |-> exists, upToDate |-> upToDate, stats |-> stats]

NoRet == Returned("none", "nil", FALSE, FALSE, <<>>)

\* managed.ExternalObservation{} returned together with an error.
Failed(op, err) == Returned(op, err, FALSE, FALSE, <<>>)

\* A slip: an unknown name silently falls back to the default policy.
newRunPolicyDefaulting(rPolicy) ==
    CASE rPolicy = "CheckWhenObserve" -> [err |-> FALSE, name |-> rPolicy]
      [] OTHER -> [err |-> FALSE, name |-> "ObserveAndDelete"]

newRunPolicy(rPolicy) ==
    CASE rPolicy \in {"", "ObserveAndDelete"} -> [err |-> FALSE, name |-> "ObserveAndDelete"]
      [] rPolicy = "CheckWhenObserve" -> [err |-> FALSE, name |-> rPolicy]
      [] OTHER -> [err |-> TRUE, name |-> ""]

\* A slip: changed only when every host changed.
DiffAllHosts(res) == \A h \in DOMAIN res : res[h] # 0

Diff(res) == \E h \in DOMAIN res : res[h] # 0

\* A write of the reconciler's copy is served: the request gets through,
\* the object is there and the copy's resourceVersion is the current one.
Served(api) == api /\ mr.present /\ ~stale

\* cr.SetConditions(cond): the Ready condition is replaced as a whole,
\* reason and message.
SetConditions(c, cond, msg) == [c EXCEPT !.ready = cond, !.message = msg]

\* c.kube.Status().Update(ctx, cr) for the copy c of the object.
StatusUpdate(c) ==
    [mr EXCEPT !.ready = c.ready, !.message = c.message, !.synced = c.synced]

\* err.Error() of the error Runner.Run returns for a failed run.
errRun == "exit status 1"

\* What a handler has done when it returns or blocks in Run.
Outcome(m, c, ev, chk, r, t) ==
    [mr |-> m, cr |-> c, ev |-> ev, check |-> chk, run |-> r, ret |-> t]

StartRun(op) ==
    [op |-> op, check |-> checkMode, marker |-> extraVars, param |-> cr.desired,
     before |-> mr.lastApplied]

\* A slip: the two parameter structs compared by address, never equal.
isUpToDateByAddress(lastParameters) == FALSE

isUpToDate(lastParameters) ==
    lastParameters # 0 /\ lastParameters = cr.desired

\* A slip: the Synced condition not looked at.
isLastSyncOKIgnored == TRUE

isLastSyncOK == cr.synced = "True"

\* handleLastApplied up to its return or to the start of the engine: upd,
\* wev and st tell whether the kube.Update, the WriteExtraVar and the
\* Status().Update get through.
handleLastApplied(lastParameters, upd, wev, st) ==
    IF isUpToDate(lastParameters) /\ isLastSyncOK
    THEN LET c == SetConditions(cr, "Available", "")
         IN  IF Served(st)
             THEN Outcome(StatusUpdate(c), c, extraVars, checkMode, NoRun,
                          Returned("Observe", "nil", TRUE, TRUE, <<>>))
             ELSE Outcome(mr, c, extraVars, checkMode, NoRun, Failed("Observe", "status"))
    ELSE IF ~Served(upd)
    THEN Outcome(mr, cr, extraVars, checkMode, NoRun, Failed("Observe", "update"))
    ELSE LET m == [mr EXCEPT !.lastApplied = cr.desired]
         IN  IF ~wev
             THEN Outcome(m, cr, extraVars, checkMode, NoRun, Failed("Observe", "extravar"))
             ELSE Outcome(m, cr, "present", checkMode,
                          [StartRun("Observe") EXCEPT !.marker = "present"], NoRet)

\* A slip: the default case falls back to ObserveAndDelete.
ObserveOutcomeDefaulting(get, upd, wev, st) ==
    IF runnerPolicy = "CheckWhenObserve"
    THEN IF ~wev
         THEN Outcome(mr, cr, extraVars, checkMode, NoRun, Failed("Observe", "extravar"))
         ELSE Outcome(mr, cr, "present", TRUE,
                      [StartRun("Observe") EXCEPT !.marker = "present", !.check = TRUE],
                      NoRet)
    ELSE IF cr.deleted
    THEN Outcome(mr, cr, extraVars, checkMode, NoRun,
                 Returned("Observe", "nil", TRUE, FALSE, <<>>))
    ELSE IF ~get
    THEN Outcome(mr, cr, extraVars, checkMode, NoRun, Failed("Observe", "get"))
    ELSE IF ~mr.present
    THEN Outcome(mr, cr, extraVars, checkMode, NoRun,
                 Returned("Observe", "nil", FALSE, FALSE, <<>>))
    ELSE handleLastApplied(mr.lastApplied, upd, wev, st)

\* external.Observe up to its return or to the start of the engine.
ObserveOutcome(get, upd, wev, st) ==
    CASE runnerPolicy \in {"ObserveAndDelete", ""} ->
            IF cr.deleted
            THEN Outcome(mr, cr, extraVars, checkMode, NoRun,
                         Returned("Observe", "nil", TRUE, FALSE, <<>>))
            ELSE IF ~get
            THEN Outcome(mr, cr, extraVars, checkMode, NoRun, Failed("Observe", "get"))
            ELSE IF ~mr.present
            THEN Outcome(mr, cr, extraVars, checkMode, NoRun,
                         Returned("Observe", "nil", FALSE, FALSE, <<>>))
            ELSE handleLastApplied(mr.lastApplied, upd, wev, st)
      [] runnerPolicy = "CheckWhenObserve" ->
            IF ~wev
            THEN Outcome(mr, cr, extraVars, checkMode, NoRun, Failed("Observe", "extravar"))
            ELSE Outcome(mr, cr, "present", TRUE,
                         [StartRun("Observe") EXCEPT !.marker = "present", !.check = TRUE],
                         NoRet)
      [] OTHER ->
            Outcome(mr, cr, extraVars, checkMode, NoRun,
                    Returned("Observe", "nil", FALSE, FALSE, <<>>))

\* A slip: the EnableCheckMode(false) left out, the mode stays as it was.
UpdateOutcomeKeepMode(op) ==
    Outcome(mr, cr, extraVars, checkMode, StartRun(op), NoRet)

\* external.Update up to the start of the engine (Create calls Update).
UpdateOutcome(op) ==
    Outcome(mr, cr, extraVars, FALSE, [StartRun(op) EXCEPT !.check = FALSE], NoRet)

\* external.Delete up to its return or to the start of the engine.
\* A slip: the error of WriteExtraVar only logged, the engine runs anyway.
DeleteOutcomeRunsAnyway(wev) ==
    LET c == SetConditions(cr, "Deleting", "")
    IN  Outcome(mr, c, IF wev THEN "absent" ELSE extraVars, checkMode,
                [StartRun("Delete") EXCEPT !.marker = IF wev THEN "absent" ELSE extraVars],
                NoRet)

DeleteOutcome(wev) ==
    LET c == SetConditions(cr, "Deleting", "")
    IN  IF ~wev
        THEN Outcome(mr, c, extraVars, checkMode, NoRun, Failed("Delete", "extravar"))
        ELSE Outcome(mr, c, "absent", checkMode,
                     [StartRun("Delete") EXCEPT !.marker = "absent"], NoRet)

\* A slip: the error of the status update shadows the run's, and a failed
\* run whose condition was stored returns nil.
runAnsibleShadowed(op, ok, st) ==
    LET c == IF ok THEN SetConditions(cr, "Available", "")
                   ELSE SetConditions(cr, "Unavailable", errRun)
    IN  IF ~Served(st)
        THEN Outcome(mr, c, extraVars, checkMode, NoRun, Failed(op, "status"))
        ELSE Outcome(StatusUpdate(c), c, extraVars, checkMode, NoRun,
                     Returned(op, "nil", op = "Observe", op = "Observe", <<>>))

\* runAnsible from the return of c.runner.Run on.
runAnsible(op, ok, st) ==
    LET c == IF ok THEN SetConditions(cr, "Available", "")
                   ELSE SetConditions(cr, "Unavailable", errRun)
    IN  IF ~Served(st)
        THEN Outcome(mr, c, extraVars, checkMode, NoRun, Failed(op, "status"))
        ELSE IF ~ok
        THEN Outcome(StatusUpdate(c), c, extraVars, checkMode, NoRun, Failed(op, "run"))
        ELSE Outcome(StatusUpdate(c), c, extraVars, checkMode, NoRun,
                     Returned(op, "nil", op = "Observe", op = "Observe", <<>>))

\* The handler that blocked in Run, from the exit of the engine on: ok is
\* the engine's exit status, parsed and stats what ParseJSONResultsStream
\* makes of the buffered stdout.
RunOutcome(ok, parsed, stats, st) ==
    CASE run.op = "Delete" ->
            Outcome(mr, cr, extraVars, checkMode, NoRun,
                    IF ok THEN Returned("Delete", "nil", FALSE, FALSE, <<>>)
                          ELSE Failed("Delete", "run"))
      [] run.op = "Observe" /\ runnerPolicy = "CheckWhenObserve" ->
            Outcome(mr, cr, extraVars, checkMode, NoRun,
                    IF ~ok THEN Failed("Observe", "run")
                    ELSE IF ~parsed THEN Failed("Observe", "parse")
                    ELSE Returned("Observe", "nil", TRUE, ~Diff(stats), stats))
      [] OTHER -> runAnsible(run.op, ok, st)

\* No reconcile is under way, and none has been.
Detached ==
    /\ rpc = "idle" /\ cr = NoCR /\ stale = FALSE /\ runnerPolicy = ""
    /\ checkMode = FALSE /\ run = NoRun /\ ret = NoRet /\ applied = {}

ReconInit ==
    /\ mr \in {NewObject(p, a) : p \in Params, a \in Policies}
    /\ extraVars = "none"
    /\ Detached

\* The handler's effects take place; it has returned or blocks in Run.
Effects(o) ==
    /\ mr' = o.mr /\ cr' = o.cr /\ extraVars' = o.ev /\ checkMode' = o.check
    /\ run' = o.run /\ ret' = o.ret
    /\ rpc' = IF o.run = NoRun THEN "returned" ELSE "running"
    /\ UNCHANGED <<stale, runnerPolicy, notRecon>>

\* ... and the history is not kept.
Apply(o) == Effects(o) /\ UNCHANGED applied

\* connector.Connect for the object the reconciler just read: pre tells
\* whether the steps before ps.Init succeed, fs whether Init's write of
\* env/extravars does.  Init rewrites the file from spec.forProvider.vars
\* before it looks at the policy annotation.
ConnectWith(pre, fs) ==
    /\ rpc = "idle" /\ mr.present
    /\ LET rPolicy == newRunPolicy(mr.policy)
           err == IF ~pre THEN "connect"
                  ELSE IF ~fs THEN "init"
                  ELSE IF rPolicy.err THEN "policy" ELSE "nil"
       IN  /\ extraVars' = IF pre /\ fs THEN "none" ELSE extraVars
           /\ runnerPolicy' = IF err = "nil" THEN rPolicy.name ELSE ""
           /\ ret' = Failed("Connect", err)
    /\ cr' = [deleted |-> mr.deleted, desired |-> mr.desired,
              synced |-> mr.synced, ready |-> mr.ready, message |-> mr.message]
    /\ rpc' = "returned"
    /\ UNCHANGED <<mr, stale, checkMode, run, applied, notRecon>>

Connect == \E pre, fs \in BOOLEAN : ConnectWith(pre, fs)

\* The reconciler goes on to call a handler of the external client.
NextCall ==
    /\ rpc = "returned" /\ ret.err = "nil"
    /\ rpc' = "connected" /\ ret' = NoRet
    /\ UNCHANGED <<mr, cr, stale, runnerPolicy, checkMode, extraVars, run, applied, notRecon>>

Observe ==
    /\ rpc = "connected"
    /\ \E get, upd, wev, st \in BOOLEAN : Apply(ObserveOutcome(get, upd, wev, st))

Create ==
    /\ rpc = "connected"
    /\ Apply(UpdateOutcome("Create"))

Update ==
    /\ rpc = "connected"
    /\ Apply(UpdateOutcome("Update"))

Delete ==
    /\ rpc = "connected"
    /\ \E wev \in BOOLEAN : Apply(DeleteOutcome(wev))

\* What the reader Run returns can hold: Run buffers the engine's stdout
\* in check mode only.
Buffered == IF run.check THEN StatsSet ELSE {<<>>}

\* The engine exits and the handler that waited for it returns.
RunReturnsWith(ok, parsed, stats, st) ==
    /\ rpc = "running"
    /\ Apply(RunOutcome(ok, parsed, stats, st))

RunReturns ==
    \E ok, parsed, st \in BOOLEAN : \E stats \in Buffered :
        RunReturnsWith(ok, parsed, stats, st)

\* The reconcile ends: the reconciler records ReconcileSuccess or
\* ReconcileError (the Synced condition) with the conditions of its copy,
\* if that status write is served, and drops the external client.
EndReconcileWith(w) ==
    /\ rpc = "returned"
    /\ mr' = IF Served(w)
             THEN [mr EXCEPT !.synced = IF ret.err = "nil" THEN "True" ELSE "False",
                             !.ready = cr.ready, !.message = cr.message]
             ELSE mr
    /\ rpc' = "idle" /\ cr' = NoCR /\ stale' = FALSE /\ runnerPolicy' = ""
    /\ checkMode' = FALSE /\ run' = NoRun /\ ret' = NoRet
    /\ UNCHANGED <<extraVars, applied, notRecon>>

EndReconcile == \E w \in BOOLEAN : EndReconcileWith(w)

\* The provider process dies or is killed in the middle of a reconcile;
\* the API object and the files stay as they are.
Restart ==
    /\ rpc # "idle"
    /\ rpc' = "idle" /\ cr' = NoCR /\ stale' = FALSE /\ runnerPolicy' = ""
    /\ checkMode' = FALSE /\ run' = NoRun /\ ret' = NoRet
    /\ UNCHANGED <<mr, extraVars, applied, notRecon>>

\* Someone else writes the object: the reconciler's copy is out of date.
Touched == stale \/ rpc # "idle"

EditSpec ==
    /\ mr.present
    /\ \E p \in Params \ {mr.desired} : mr' = [mr EXCEPT !.desired = p]
    /\ stale' = Touched
    /\ UNCHANGED <<cr, rpc, runnerPolicy, checkMode, extraVars, run, ret, applied, notRecon>>

Annotate ==
    /\ mr.present
    /\ \E a \in Policies \ {mr.policy} : mr' = [mr EXCEPT !.policy = a]
    /\ stale' = Touched
    /\ UNCHANGED <<cr, rpc, runnerPolicy, checkMode, extraVars, run, ret, applied, notRecon>>

MarkDeleted ==
    /\ mr.present /\ ~mr.deleted
    /\ mr' = [mr EXCEPT !.deleted = TRUE]
    /\ stale' = Touched
    /\ UNCHANGED <<cr, rpc, runnerPolicy, checkMode, extraVars, run, ret, applied, notRecon>>

\* The last finalizer goes and the API server removes the object.
Finalize ==
    /\ mr.present /\ mr.deleted
    /\ mr' = NoObject
    /\ stale' = Touched
    /\ UNCHANGED <<cr, rpc, runnerPolicy, checkMode, extraVars, run, ret, applied, notRecon>>

\* An object of the same name is created anew.
Recreate ==
    /\ ~mr.present /\ rpc = "idle"
    /\ \E p \in Params, a \in Policies : mr' = NewObject(p, a)
    /\ UNCHANGED <<cr, stale, rpc, runnerPolicy, checkMode, extraVars, run, ret, applied, notRecon>>

ReconNext ==
    \/ Connect
    \/ NextCall
    \/ Observe
    \/ Create
    \/ Update
    \/ Delete
    \/ RunReturns
    \/ EndReconcile
    \/ Restart
    \/ EditSpec
    \/ Annotate
    \/ MarkDeleted
    \/ Finalize
    \/ Recreate

\* ------------------------------------------------------------------------
\* Part 3a.  The handlers on an external client as a caller may hold it.
\*
\* Observe and Delete are methods of external and take the runner as it
\* is: whatever policy name it carries, in either mode, over any
\* env/extravars, for an object in any state.  Here one call is made on
\* each such client, and followed to its return.
\* ------------------------------------------------------------------------

\* The marker env/extravars may hold when the handler is called.
Markers == {"none", "present", "absent"}

HandlersInit ==
    /\ mr \in [present : BOOLEAN, deleted : BOOLEAN, desired : Params,
               lastApplied : {0} \cup Params, policy : {""},
               synced : {"Unknown", "True", "False"}, ready : {"Unknown"},
               message : {""}]
    /\ cr = [deleted |-> mr.deleted, desired |-> mr.desired,
             synced |-> mr.synced, ready |-> mr.ready, message |-> mr.message]
    /\ stale = FALSE
    /\ rpc = "connected"
    /\ runnerPolicy \in Policies
    /\ checkMode \in BOOLEAN
    /\ extraVars \in Markers
    /\ run = NoRun /\ ret = NoRet /\ applied = {}

HandlersNext ==
    \/ Observe
    \/ Delete
    \/ RunReturns

\* ------------------------------------------------------------------------
\* Part 3b.  The deletion of an object under the reconciler's dispatch.
\*
\* The managed reconciler calls Connect, then Observe, and for an object
\* with a deletion timestamp whose Observe returned without error either
\* calls Delete or, the deletion policy being Orphan (Observe sets it on
\* every call), removes the finalizer; an error of a handler ends the
\* reconcile, which is queued again.  Every request to the API server and
\* every file write succeeds here: the only free input is what the engine
\* does.
\* ------------------------------------------------------------------------

DelConnect == ConnectWith(TRUE, TRUE)

DelObserve ==
    /\ rpc = "returned" /\ ret.op = "Connect" /\ ret.err = "nil"
    /\ Apply(ObserveOutcome(TRUE, TRUE, TRUE, TRUE))

\* Observe has answered for an object that is being deleted.
ObservedDeleted ==
    rpc = "returned" /\ ret.op = "Observe" /\ ret.err = "nil" /\ cr.deleted

DelDelete ==
    /\ ObservedDeleted /\ ret.exists
    /\ Apply(DeleteOutcome(TRUE))

DelRunReturns ==
    /\ rpc = "running"
    /\ \E ok, parsed \in BOOLEAN : \E stats \in Buffered :
          Apply(RunOutcome(ok, parsed, stats, TRUE))

\* The reconciler removes the finalizer and the API server the object.
RemoveFinalizer ==
    /\ ObservedDeleted
    /\ mr' = NoObject
    /\ rpc' = "idle" /\ cr' = NoCR /\ stale' = FALSE /\ runnerPolicy' = ""
    /\ checkMode' = FALSE /\ run' = NoRun /\ ret' = NoRet
    /\ UNCHANGED <<extraVars, applied, notRecon>>

\* A handler returned an error, or Delete returned: the reconcile ends
\* and the object is queued again.
Requeue ==
    /\ ret.err # "nil" \/ ret.op = "Delete"
    /\ EndReconcileWith(TRUE)

\* An object that is being deleted when the provider first sees it.
DeletionInit ==
    /\ mr \in {[NewObject(p, a) EXCEPT !.deleted = TRUE] :
                 p \in Params, a \in Policies \ {"LOL"}}
    /\ extraVars = "none"
    /\ Detached

DeletionNext ==
    \/ DelConnect
    \/ DelObserve
    \/ DelDelete
    \/ DelRunReturns
    \/ RemoveFinalizer
    \/ Requeue

\* The reconciler keeps working its queue, the engine's child process
\* ends, and a reconciler that can remove the finalizer again and again
\* does so in the end.
DeletionFairness ==
    /\ WF_vars(DelConnect) /\ WF_vars(DelObserve) /\ WF_vars(DelRunReturns)
    /\ WF_vars(Requeue) /\ SF_vars(RemoveFinalizer)

\* ------------------------------------------------------------------------
\* Part 3c.  The controller under the reconciler's dispatch, with the
\* history of the apply runs.
\*
\* The managed reconciler calls Connect and then Observe; if Observe
\* returned no error it calls, for an object with a deletion timestamp,
\* Delete (or removes the finalizer), and otherwise Create if the resource
\* does not exist, Update if it exists and is not up to date, and nothing
\* else.  A reconcile ends after that call or after an error, and records
\* the Synced condition.  Requests and file writes may fail, the spec may
\* be edited, the object deleted and removed, and the provider may die at
\* any point.
\* ------------------------------------------------------------------------

\* Observe has answered the reconciler without error.
Observed == rpc = "returned" /\ ret.op = "Observe" /\ ret.err = "nil"

DispObserve ==
    /\ rpc = "returned" /\ ret.op = "Connect" /\ ret.err = "nil"
    /\ \E get, upd, wev, st \in BOOLEAN : Apply(ObserveOutcome(get, upd, wev, st))

DispCreate ==
    /\ Observed /\ ~cr.deleted /\ ~ret.exists
    /\ Apply(UpdateOutcome("Create"))

DispUpdate ==
    /\ Observed /\ ~cr.deleted /\ ret.exists /\ ~ret.upToDate
    /\ Apply(UpdateOutcome("Update"))

DispDelete ==
    /\ Observed /\ cr.deleted /\ ret.exists
    /\ \E wev \in BOOLEAN : Apply(DeleteOutcome(wev))

\* The run in progress was started by Observe, Create or Update in apply
\* mode.
ApplyMode == run.op \in {"Observe", "Create", "Update"} /\ ~run.check

\* The engine exits and the handler returns; an apply run that succeeded
\* is remembered with the desired value it was started for.
DispRunReturns ==
    /\ rpc = "running"
    /\ \E ok, parsed, st \in BOOLEAN : \E stats \in Buffered :
          /\ Effects(RunOutcome(ok, parsed, stats, st))
          /\ applied' = IF ok /\ ApplyMode THEN applied \cup {run.param} ELSE applied

\* The reconcile is over: a handler failed, or the call that followed
\* Observe returned, or Observe found nothing to do.
DispEnd ==
    /\ \/ ret.err # "nil"
       \/ ret.op \in {"Create", "Update", "Delete"}
       \/ Observed /\ ~cr.deleted /\ ret.exists /\ ret.upToDate
    /\ EndReconcile

DispatchInit ==
    /\ mr \in {NewObject(p, a) : p \in Params, a \in Policies \ {"LOL"}}
    /\ extraVars = "none"
    /\ Detached

DispatchNext ==
    \/ Connect
    \/ DispObserve
    \/ DispCreate
    \/ DispUpdate
    \/ DispDelete
    \/ DispRunReturns
    \/ RemoveFinalizer
    \/ DispEnd
    \/ Restart
    \/ EditSpec
    \/ MarkDeleted
    \/ Finalize

\* ------------------------------------------------------------------------
\* Part 4.  The failure diagnosis: parseEvents, extractFailureReason and
\* runnerEventMessage.
\*
\* A text is a sequence of pieces; a double quote and a backslash are
\* pieces of their own, so that %q can be modelled by what it does to them.
\* ------------------------------------------------------------------------

\* Bound of the diagnosis model: the files of a job_events directory.
MaxFiles == 2

eventTypeRunnerFailed == "runner_on_failed"

eventTypeRunnerUnreachable == "runner_on_unreachable"

\* The event types of the model: the two above and one other type.
EventTypes == {eventTypeRunnerFailed, eventTypeRunnerUnreachable, "runner_on_ok"}

\* The values of play, task, host and res.msg of an event.
FieldSets ==
    { [Play |-> <<"test">>, Task |-> <<"file">>, Host |-> <<"testhost">>,
       Msg |-> <<"fake error">>],
      [Play |-> <<"a", "\"", "b">>, Task |-> <<"c", "\\", "d">>, Host |-> <<"\"">>,
       Msg |-> <<"m", "\"", "s">>],
      [Play |-> <<>>, Task |-> <<>>, Host |-> <<>>, Msg |-> <<>>] }

\* A job event: dataOK tells whether its event_data decodes as
\* runnerEventData.
JobEvents ==
    { [Event |-> t, dataOK |-> d, IgnoreErrors |-> i,
       Play |-> f.Play, Task |-> f.Task, Host |-> f.Host, Msg |-> f.Msg] :
         t \in EventTypes, d \in BOOLEAN, i \in BOOLEAN, f \in FieldSets }

\* A file of the directory: one that holds a job event, or one that
\* cannot be read or is not a JSON job event.
NoEvent == [Event |-> "unreadable"]

Files == JobEvents \cup {NoEvent}

\* The directories: unreadable, or up to MaxFiles files in ReadDir's order.
Dirs ==
    {[ok |-> FALSE, list |-> <<>>]}
        \cup {[ok |-> TRUE, list |-> l] : l \in UNION {[1..n -> Files] : n \in 0..MaxFiles}}

\* The string a text stands for (%s).
RECURSIVE Plain(_)
Plain(text) ==
    IF text = <<>> THEN "" ELSE Head(text) \o Plain(Tail(text))

\* strconv.Quote's escaping of the pieces of a text.
RECURSIVE Escaped(_)
Escaped(text) ==
    IF text = <<>> THEN ""
    ELSE (IF Head(text) \in {"\"", "\\"} THEN "\\" ELSE "") \o Head(text)
             \o Escaped(Tail(text))

\* A slip: %s between quotes instead of %q.
SprintfPlainQuoted(text) == "\"" \o Plain(text) \o "\""

\* fmt.Sprintf("%q", s).
SprintfQ(text) == "\"" \o Escaped(text) \o "\""

\* A slip: a file that cannot be read or decoded fails the whole call.
parseEventsStrict(dir) ==
    IF ~dir.ok THEN [evts |-> <<>>, err |-> "readdir"]
    ELSE IF \E i \in DOMAIN dir.list : dir.list[i] = NoEvent
         THEN [evts |-> <<>>, err |-> "readfile"]
    ELSE [evts |-> dir.list, err |-> "nil"]

\* parseEvents: the events of the files that can be read and decoded, in
\* the directory's order; an error if the directory cannot be read.
parseEvents(dir) ==
    IF ~dir.ok THEN [evts |-> <<>>, err |-> "readdir"]
    ELSE [evts |-> SelectSeq(dir.list, LAMBDA f : f # NoEvent), err |-> "nil"]

runnerEventMessage(evt, reason) ==
    IF ~evt.dataOK THEN [m |-> "", err |-> "unmarshal"]
    ELSE IF evt.IgnoreErrors THEN [m |-> "", err |-> "nil"]
    ELSE [m |-> reason \o " on play " \o SprintfQ(evt.Play)
                 \o ", task " \o SprintfQ(evt.Task)
                 \o ", host " \o SprintfQ(evt.Host)
                 \o ": " \o Plain(evt.Msg),
          err |-> "nil"]

\* strings.Join.
RECURSIVE Join(_, _)
Join(msgs, sep) ==
    IF msgs = <<>> THEN ""
    ELSE IF Len(msgs) = 1 THEN msgs[1]
    ELSE msgs[1] \o sep \o Join(Tail(msgs), sep)

\* The loop of extractFailureReason over the events from index i on, with
\* the messages collected so far.
RECURSIVE extractLoop(_, _, _)
extractLoop(es, i, msgs) ==
    IF i > Len(es) THEN [reason |-> Join(msgs, "; "), err |-> "nil"]
    ELSE LET evt == es[i]
             r == IF evt.Event = eventTypeRunnerFailed
                  THEN runnerEventMessage(evt, "Failed")
                  ELSE runnerEventMessage(evt, "Unreachable")
         IN  IF evt.Event \notin {eventTypeRunnerFailed, eventTypeRunnerUnreachable}
             THEN extractLoop(es, i + 1, msgs)
             ELSE IF r.err # "nil" THEN [reason |-> "", err |-> r.err]
             ELSE extractLoop(es, i + 1, IF r.m # "" THEN Append(msgs, r.m) ELSE msgs)

\* extractFailureReason from the parsed events on.
extractFailureReason(parsed) ==
    IF parsed.err # "nil" THEN [reason |-> "", err |-> "parse"]
    ELSE extractLoop(parsed.evts, 1, <<>>)

NoDiag == [reason |-> "", err |-> "none"]

DiagInit ==
    /\ files \in Dirs
    /\ evts = <<>> /\ diag = NoDiag /\ dpos = "dir"

\* extractFailureReason's call of parseEvents.
ParseEvents ==
    /\ dpos = "dir"
    /\ evts' = parseEvents(files).evts
    /\ dpos' = "parsed"
    /\ UNCHANGED <<files, diag, notDiag>>

\* The rest of extractFailureReason.
ExtractFailureReason ==
    /\ dpos = "parsed"
    /\ diag' = extractFailureReason(parseEvents(files))
    /\ dpos' = "done"
    /\ UNCHANGED <<files, evts, notDiag>>

DiagNext ==
    \/ ParseEvents
    \/ ExtractFailureReason

\* ------------------------------------------------------------------------
\* Part 5.  Runner.Run and the ansible-runner child process it starts.
\*
\* Run builds the command, installs the shutdown, starts the child, waits
\* for it and turns the result of Wait into its own.  The command carries
\* the context that was given to playbookCmdFunc / roleCmdFunc; what
\* os/exec does with Cancel and WaitDelay when that context is done is
\* part of the model.
\* ------------------------------------------------------------------------

\* Bounds of the process model: the runs of one Runner and the chunks a
\* child writes.
MaxRuns == 2
MaxChunks == 2

\* dc.WaitDelay = 10 * time.Second.
WaitDelay == 10

\* The default of the artifacts-history-limit flag.
DefaultArtifactsHistoryLimit == 10

\* Time passes in steps of half the grace window.
GraceStep == WaitDelay \div 2

AnsibleRolesPath == "ANSIBLE_ROLE_PATH"

AnsibleInventoryPath == "ANSIBLE_INVENTORY"

EnvKeys == {AnsibleRolesPath, AnsibleInventoryPath}

\* The maps from some of the keys to the value v.
EnvMaps(v) == UNION {[K -> {v}] : K \in SUBSET EnvKeys}

\* runnerutil.ConvertMapToSlice: one "key=value" entry per key of the map,
\* in any order (the order of a map's iteration).
ConvertMapToSlice(m) ==
    LET n == Cardinality(DOMAIN m)
    IN  { [i \in 1..n |-> [k |-> ks[i], v |-> m[ks[i]]]] :
            ks \in {f \in [1..n -> DOMAIN m] : \A i, j \in 1..n : i # j => f[i] # f[j]} }

\* The value a process started with the environment env sees for key k:
\* os/exec keeps the last entry of a key.
RECURSIVE Getenv(_, _)
Getenv(env, k) ==
    IF env = <<>> THEN "unset"
    ELSE IF env[Len(env)].k = k THEN env[Len(env)].v
    ELSE Getenv(SubSeq(env, 1, Len(env) - 1), k)

\* strconv.Itoa.
Itoa(n) == ToString(n)

\* exec.CommandContext(ctx, name, args...): Cancel kills the process and
\* there is no WaitDelay unless the caller sets them.
CommandContext(args) ==
    [Args |-> args, Env |-> <<>>, Stdout |-> "nil", Stderr |-> "nil",
     Cancel |-> "kill", WaitDelay |-> 0]

\* A slip: the parent's environment appended after the caller's entries.
EnvOfParentLast(behaviorVarsSlice, inventory) ==
    behaviorVarsSlice \o osEnviron
        \o <<[k |-> AnsibleInventoryPath, v |-> inventory]>>

\* The three appends to dc.Env of both command functions.
EnvOf(behaviorVarsSlice, inventory) ==
    osEnviron \o behaviorVarsSlice
        \o <<[k |-> AnsibleInventoryPath, v |-> inventory]>>

\* A slip: the check flag appended in apply mode.
CheckOptionsInverted(check) ==
    IF ~check THEN <<"--cmdline", "\\--check">> ELSE <<>>

\* if checkMode { cmdOptions = append(cmdOptions, "--cmdline", "\\--check") }
CheckOptions(check) ==
    IF check THEN <<"--cmdline", "\\--check">> ELSE <<>>

playbookCmdFunc(behaviorVarsSlice, check) ==
    [CommandContext(<<"ansible-runner", "run", "path", "-p", "playbookName">>
                        \o CheckOptions(check))
        EXCEPT !.Env = EnvOf(behaviorVarsSlice, "hosts")]

roleCmdFunc(behaviorVarsSlice, check) ==
    [CommandContext(<<"ansible-runner", "run", "WorkingDirPath", "--role", "roleName",
                      "--roles-path", "path", "--project-dir", "WorkingDirPath">>
                        \o CheckOptions(check))
        EXCEPT !.Env = EnvOf(behaviorVarsSlice, "WorkingDirPath/hosts")]

\* r.cmdFunc: the one of the two Init chose.
cmdFunc(behaviorVarsSlice, check) ==
    IF runner.kind = "playbook" THEN playbookCmdFunc(behaviorVarsSlice, check)
    ELSE roleCmdFunc(behaviorVarsSlice, check)

\* generateUUID().String(): a value that was never handed out before.
generateUUID == "uuid-" \o ToString(Cardinality(ids) + 1)

\* A slip: stdout goes to the buffer in both modes.
WritersAlwaysBuffered(check) ==
    [Stdout |-> "stdoutBuf", Stderr |-> IF ~check THEN "os.Stderr" ELSE "nil"]

\* The writers Run gives the command: stderrWriter stays nil in check mode.
Writers(check) ==
    IF ~check THEN [Stdout |-> "os.Stdout", Stderr |-> "os.Stderr"]
    ELSE [Stdout |-> "stdoutBuf", Stderr |-> "nil"]

\* A slip: Cancel and WaitDelay left at the defaults of exec.CommandContext.
ShutdownDefault(c) == c

\* dc.Cancel = func() error { return dc.Process.Signal(os.Interrupt) } and
\* dc.WaitDelay = 10 * time.Second.
Shutdown(c) == [c EXCEPT !.Cancel = "interrupt", !.WaitDelay = WaitDelay]

NoCmd == CommandContext(<<>>)

NoChild == [state |-> "none", status |-> "none"]

NoError == [orig |-> "nil", wrapped |-> FALSE, reason |-> ""]

NoOut == [reader |-> "none", err |-> NoError]

\* What Wait returns for a child that exited: its exit error, or the
\* context's error if the child exited with status zero after Cancel was
\* called.
WaitError ==
    IF child.status # "zero" THEN child.status
    ELSE IF sent # <<>> THEN "context canceled"
    ELSE "nil"

\* A slip: the diagnosis error returned in place of the process error.
RunReturnDiagnosisError(err, d) ==
    IF err = "nil" THEN [reader |-> stdoutBuf, err |-> NoError]
    ELSE IF d.err # "nil"
    THEN [reader |-> "nil", err |-> [orig |-> d.err, wrapped |-> FALSE, reason |-> ""]]
    ELSE [reader |-> "nil", err |-> [orig |-> err, wrapped |-> TRUE, reason |-> d.reason]]

\* What Run returns after Wait returned err, d being what
\* extractFailureReason made of the run's job_events directory.
RunReturn(err, d) ==
    IF err = "nil" THEN [reader |-> stdoutBuf, err |-> NoError]
    ELSE IF d.err # "nil"
    THEN [reader |-> "nil", err |-> [orig |-> err, wrapped |-> FALSE, reason |-> ""]]
    ELSE [reader |-> "nil", err |-> [orig |-> err, wrapped |-> TRUE, reason |-> d.reason]]

\* The job_events directories of the process model: at most one file.
\* Runner.workDir, the private data directory ansible-runner is started on.
workDir == "workDir"

\* Before Run has generated an id, and before it has read a directory.
NoId == "none"
NoDir == <<>>

\* A slip: the directory without the run's id in it.
jobEventsDirOfNoRun(dir, ident) == <<dir, "artifacts", "job_events">>

\* filepath.Join(r.workDir, "artifacts", id, "job_events"), as path elements.
jobEventsDir(dir, ident) == <<dir, "artifacts", ident, "job_events">>

RunDirs ==
    {[ok |-> FALSE, list |-> <<>>], [ok |-> TRUE, list |-> <<>>]}
        \cup {[ok |-> TRUE, list |-> <<f>>] : f \in Files}

\* The Runner as Init made it, before any EnableCheckMode.
Runners ==
    [checkMode : {FALSE}, behaviorVars : EnvMaps("behavior"),
     kind : {"playbook", "role"},
     artifactsHistoryLimit : {0, DefaultArtifactsHistoryLimit}]

\* No run is under way.
NoRunUnderWay ==
    /\ rpos = "idle" /\ dc = NoCmd /\ child = NoChild /\ ctx = "live"
    /\ sent = <<>> /\ elapsed = 0
    /\ osStdout = <<>> /\ osStderr = <<>> /\ stdoutBuf = <<>> /\ out = NoOut
    /\ id = NoId /\ diagnosed = NoDir

ProcInit ==
    /\ runner \in Runners
    /\ osEnviron \in UNION {ConvertMapToSlice(m) : m \in EnvMaps("parent")}
    /\ ids = {}
    /\ NoRunUnderWay

EnableCheckMode ==
    /\ rpos = "idle"
    /\ \E m \in BOOLEAN \ {runner.checkMode} : runner' = [runner EXCEPT !.checkMode = m]
    /\ UNCHANGED <<osEnviron, rpos, dc, ids, child, ctx, sent, elapsed,
                   osStdout, osStderr, stdoutBuf, out, id, diagnosed, notProc>>

\* Run up to the assignment of dc.Stdout and dc.Stderr.
RunBuild ==
    /\ rpos = "idle" /\ Cardinality(ids) < MaxRuns
    /\ \E behaviorVarsSlice \in ConvertMapToSlice(runner.behaviorVars) :
          LET c == cmdFunc(behaviorVarsSlice, runner.checkMode)
              uuid == generateUUID
              w == Writers(runner.checkMode)
          IN  /\ dc' = [c EXCEPT !.Args = c.Args \o <<"--rotate-artifacts",
                                                    Itoa(runner.artifactsHistoryLimit),
                                                    "--ident", uuid>>,
                                 !.Stdout = w.Stdout, !.Stderr = w.Stderr]
              /\ id' = uuid
              /\ ids' = ids \cup {uuid}
    /\ rpos' = "built"
    /\ UNCHANGED <<runner, osEnviron, child, ctx, sent, elapsed,
                   osStdout, osStderr, stdoutBuf, out, diagnosed, notProc>>

\* Run installs the shutdown.
RunArm ==
    /\ rpos = "built"
    /\ dc' = Shutdown(dc)
    /\ rpos' = "armed"
    /\ UNCHANGED <<runner, osEnviron, ids, child, ctx, sent, elapsed,
                   osStdout, osStderr, stdoutBuf, out, id, diagnosed, notProc>>

\* dc.Start(): it fails without a child if the context is done already or
\* the process cannot be started.
Start ==
    /\ rpos = "armed"
    /\ \E ok \in BOOLEAN :
          IF ctx = "done" \/ ~ok
          THEN /\ out' = [reader |-> "nil",
                          err |-> [orig |-> IF ctx = "done" THEN "context canceled"
                                            ELSE "start",
                                   wrapped |-> FALSE, reason |-> ""]]
               /\ rpos' = "returned" /\ child' = child
          ELSE /\ child' = [state |-> "running", status |-> "none"]
               /\ rpos' = "waiting" /\ out' = out
    /\ UNCHANGED <<runner, osEnviron, dc, ids, ctx, sent, elapsed,
                   osStdout, osStderr, stdoutBuf, id, diagnosed, notProc>>

\* The context of the command is cancelled or times out.
CtxDone ==
    /\ ctx = "live" /\ rpos # "idle"
    /\ ctx' = "done"
    /\ UNCHANGED <<runner, osEnviron, rpos, dc, ids, child, sent, elapsed,
                   osStdout, osStderr, stdoutBuf, out, id, diagnosed, notProc>>

\* os/exec sees the context done and calls dc.Cancel; the grace window
\* starts.
CancelChild ==
    /\ ctx = "done" /\ child.state = "running" /\ sent = <<>>
    /\ sent' = <<dc.Cancel>>
    /\ elapsed' = 0
    /\ UNCHANGED <<runner, osEnviron, rpos, dc, ids, child, ctx,
                   osStdout, osStderr, stdoutBuf, out, id, diagnosed, notProc>>

GraceTick ==
    /\ sent # <<>> /\ child.state = "running" /\ elapsed < WaitDelay
    /\ elapsed' = elapsed + GraceStep
    /\ UNCHANGED <<runner, osEnviron, rpos, dc, ids, child, ctx, sent,
                   osStdout, osStderr, stdoutBuf, out, id, diagnosed, notProc>>

\* os/exec kills a child that is still there when WaitDelay has passed
\* since Cancel was called.
KillChild ==
    /\ sent # <<>> /\ sent[Len(sent)] # "kill" /\ child.state = "running"
    /\ dc.WaitDelay > 0 /\ elapsed >= dc.WaitDelay
    /\ sent' = Append(sent, "kill")
    /\ UNCHANGED <<runner, osEnviron, rpos, dc, ids, child, ctx, elapsed,
                   osStdout, osStderr, stdoutBuf, out, id, diagnosed, notProc>>

\* The statuses a child can end with: a killed one dies of the signal, an
\* interrupted one may handle the interrupt and exit as it likes.
ExitStatuses ==
    IF sent # <<>> /\ sent[Len(sent)] = "kill" THEN {"signal: killed"}
    ELSE IF sent # <<>> THEN {"zero", "exit status 1", "signal: interrupt"}
    ELSE {"zero", "exit status 1"}

ChildExits ==
    /\ child.state = "running"
    /\ \E s \in ExitStatuses : child' = [state |-> "exited", status |-> s]
    /\ UNCHANGED <<runner, osEnviron, rpos, dc, ids, ctx, sent, elapsed,
                   osStdout, osStderr, stdoutBuf, out, id, diagnosed, notProc>>

\* What reaches sink when the child writes chunk to a stream connected to
\* it; a nil writer drops it.
Written(sink, target, chunk) ==
    IF sink = target THEN <<chunk>> ELSE <<>>

ChildWrites ==
    /\ child.state = "running"
    /\ Len(osStdout) + Len(osStderr) + Len(stdoutBuf) < MaxChunks
    /\ \E stream \in {"stdout", "stderr"} :
          LET sink == IF stream = "stdout" THEN dc.Stdout ELSE dc.Stderr
          IN  /\ osStdout' = osStdout \o Written(sink, "os.Stdout", stream)
              /\ osStderr' = osStderr \o Written(sink, "os.Stderr", stream)
              /\ stdoutBuf' = stdoutBuf \o Written(sink, "stdoutBuf", stream)
    /\ UNCHANGED <<runner, osEnviron, rpos, dc, ids, child, ctx, sent, elapsed,
                   out, id, diagnosed, notProc>>

\* dc.Wait() returns and Run with it.
WaitReturns ==
    /\ rpos = "waiting" /\ child.state = "exited"
    /\ \E dir \in RunDirs :
          out' = RunReturn(WaitError, extractFailureReason(parseEvents(dir)))
    /\ diagnosed' = IF WaitError # "nil" THEN jobEventsDir(workDir, id) ELSE NoDir
    /\ rpos' = "returned"
    /\ UNCHANGED <<runner, osEnviron, dc, ids, child, ctx, sent, elapsed,
                   osStdout, osStderr, stdoutBuf, id, notProc>>

\* The caller is done with the result; the next call of Run on this
\* Runner comes with a context of its own.
NextRun ==
    /\ rpos = "returned"
    /\ rpos' = "idle" /\ dc' = NoCmd /\ child' = NoChild /\ ctx' = "live"
    /\ sent' = <<>> /\ elapsed' = 0
    /\ osStdout' = <<>> /\ osStderr' = <<>> /\ stdoutBuf' = <<>> /\ out' = NoOut
    /\ id' = NoId /\ diagnosed' = NoDir
    /\ UNCHANGED <<runner, osEnviron, ids, notProc>>

ProcNext ==
    \/ EnableCheckMode
    \/ RunBuild
    \/ RunArm
    \/ Start
    \/ CtxDone
    \/ CancelChild
    \/ GraceTick
    \/ KillChild
    \/ ChildExits
    \/ ChildWrites
    \/ WaitReturns
    \/ NextRun

\* ------------------------------------------------------------------------
\* Part 6.  Runner.WriteExtraVar and the env/extravars file.
\*
\* The file holds a JSON text.  A JSON object is a function from its keys
\* to values; a number of the text is the integer it denotes, written in
\* two limbs of 27 bits (hi * 2^27 + lo), so that the integers around 2^53
\* can be told apart.  json.Unmarshal into map[string]interface{} makes a
\* float64 of every number, and json.Marshal writes a float64 of that size
\* as the integer it holds.
\* ------------------------------------------------------------------------

\* Bounds of the file model.
MaxKeys == 2
MaxWrites == 2

HalfWord == 2 ^ 27

\* The least limb hi of an integer that has more than 53 bits.
Wide == 2 ^ 26

MetaKey == "ansible_provider_meta"

\* The keys of spec.forProvider.vars.
OtherKeys == {"k" \o ToString(n) : n \in 1..MaxKeys}

Num(hi, lo) == [t |-> "number", hi |-> hi, lo |-> lo, s |-> ""]

Str(s) == [t |-> "string", hi |-> 0, lo |-> 0, s |-> s]

\* map[string]interface{}{name: map[string]string{"state": state}}, hi and
\* lo unused.
StateVar(name, state) == [t |-> "object", hi |-> 0, lo |-> 0, s |-> name \o "." \o state]

\* The values a key of the file can have: 1, 2^53, 2^53 + 1, 2^53 + 3 and
\* a string.
UserValues == {Num(0, 1), Num(Wide, 0), Num(Wide, 1), Num(Wide, 3), Str("a")}

\* What the handlers pass to WriteExtraVar.
StateVars == {StateVar("example", st) : st \in {"present", "absent"}}

\* strconv.ParseFloat(s, 64) of an integer below 2^54, as the integer the
\* float64 holds: an integer of 54 bits is rounded to a multiple of 2, a
\* tie to the even mantissa.
Float64(v) ==
    IF v.hi < Wide \/ v.lo % 2 = 0 THEN v
    ELSE IF ((v.lo - 1) \div 2) % 2 = 0 THEN [v EXCEPT !.lo = v.lo - 1]
    ELSE IF v.lo + 1 < HalfWord THEN [v EXCEPT !.lo = v.lo + 1]
    ELSE [v EXCEPT !.hi = v.hi + 1, !.lo = 0]

\* json.Unmarshal of one value into interface{}.
Decode(v) == IF v.t = "number" THEN Float64(v) ELSE v

\* json.Marshal of one value of a map[string]interface{}.
Encode(v) == v

NoKeys == [k \in {} |-> Str("")]

\* The texts of the file: nothing, no JSON, null, a JSON array or an object.
Text(kind, obj) == [kind |-> kind, obj |-> obj]

Objects == UNION {[ks -> UserValues \cup StateVars] : ks \in SUBSET (OtherKeys \cup {MetaKey})}

\* What Init's addFile and earlier calls of WriteExtraVar leave in the
\* file: the keys of spec.forProvider.vars with the user's values, and the
\* meta key with a state.
FileObjects ==
    {o \in Objects : \A k \in DOMAIN o : o[k] \in StateVars <=> k = MetaKey}

ExtraVarsFiles ==
    {Text(kind, NoKeys) : kind \in {"missing", "unreadable", "empty", "garbage", "null", "array"}}
        \cup {Text("object", o) : o \in FileObjects}

\* WriteExtraVar on the file as it is: wr tells whether os.WriteFile
\* succeeds, fails before it has truncated the file, or after.
WriteExtraVar(file, extraVar, wr) ==
    IF file.kind = "unreadable" THEN [file |-> file, err |-> "read"]
    ELSE IF file.kind \in {"garbage", "array"} THEN [file |-> file, err |-> "unmarshal"]
    ELSE LET contentVars == [k \in DOMAIN file.obj |-> Decode(file.obj[k])]
             merged == [k \in DOMAIN contentVars \cup {MetaKey} |->
                           IF k = MetaKey THEN extraVar ELSE contentVars[k]]
             contentVarsB == [k \in DOMAIN merged |-> Encode(merged[k])]
         IN  IF wr = "open" THEN [file |-> file, err |-> "write"]
             ELSE IF wr = "write" THEN [file |-> Text("empty", NoKeys), err |-> "write"]
             ELSE [file |-> Text("object", contentVarsB), err |-> "nil"]

NoCall == StateVar("", "")

FileIdle ==
    /\ evFile = Text("missing", NoKeys) /\ evArg = NoCall /\ evErr = "nil"
    /\ evCalls = 0

FileInit ==
    /\ evFile \in ExtraVarsFiles
    /\ evArg = NoCall /\ evErr = "nil" /\ evCalls = 0

\* A handler calls WriteExtraVar.
WriteExtraVarCall ==
    /\ evCalls < MaxWrites
    /\ \E extraVar \in StateVars, wr \in {"ok", "open", "write"} :
          LET r == WriteExtraVar(evFile, extraVar, wr)
          IN  /\ evFile' = r.file /\ evErr' = r.err /\ evArg' = extraVar
    /\ evCalls' = evCalls + 1
    /\ UNCHANGED notFile

FileNext == WriteExtraVarCall

\* ------------------------------------------------------------------------
\* Specifications
\* ------------------------------------------------------------------------

Init == ShardInit /\ LeaseInit /\ ReconInit /\ DiagInit /\ ProcInit /\ FileInit

Next == ShardNext \/ LeaseNext \/ ReconNext \/ DiagNext \/ ProcNext \/ FileNext

Spec == Init /\ [][Next]_vars

\* No event is going through the predicate.
ShardIdle ==
    /\ shName = <<>> /\ shTotal = 1 /\ shTarget = 0 /\ shKind = "Create"
    /\ shDone = FALSE /\ shHash = <<0, 0>> /\ shRes = FALSE

\* No object is being reconciled.
ReconIdle == mr = NoObject /\ extraVars = "none" /\ Detached

\* No diagnosis is under way.
DiagIdle ==
    /\ files = [ok |-> TRUE, list |-> <<>>]
    /\ evts = <<>> /\ diag = NoDiag /\ dpos = "dir"

\* No Runner is at work.
ProcIdle ==
    /\ runner = [checkMode |-> FALSE, behaviorVars |-> <<>>, kind |-> "playbook",
                 artifactsHistoryLimit |-> DefaultArtifactsHistoryLimit]
    /\ osEnviron = <<>> /\ ids = {}
    /\ NoRunUnderWay

\* The shard predicate alone, on every event of the bounded input space.
ShardOnlyInit == ShardInit /\ LeaseInit /\ ReconIdle /\ DiagIdle /\ ProcIdle /\ FileIdle

SpecShard == ShardOnlyInit /\ [][ShardNext]_vars

\* The lease coordinators of NumReplicas replicas alone.
LeaseOnlyInit == ShardIdle /\ LeaseInit /\ ReconIdle /\ DiagIdle /\ ProcIdle /\ FileIdle

SpecLease == LeaseOnlyInit /\ [][LeaseNext]_vars

\* The lease coordinators scanning indices an outsider holds, with fairness.
ContendedOnlyInit == ShardIdle /\ ContendedInit /\ ReconIdle /\ DiagIdle /\ ProcIdle /\ FileIdle

SpecContended == ContendedOnlyInit /\ [][ContendedNext]_vars /\ ContendedFairness

\* The replicas of one deployment keeping their schedule, with fairness.
TimelyOnlyInit == ShardIdle /\ TimelyInit /\ ReconIdle /\ DiagIdle /\ ProcIdle /\ FileIdle

SpecTimely == TimelyOnlyInit /\ [][TimelyNext]_vars /\ TimelyFairness

\* The controller alone, reconciling one object.
ReconOnlyInit == ShardIdle /\ LeaseInit /\ ReconInit /\ DiagIdle /\ ProcIdle /\ FileIdle

SpecRecon == ReconOnlyInit /\ [][ReconNext]_vars

\* One call of a handler on every external client of the bounded input space.
HandlersOnlyInit == ShardIdle /\ LeaseInit /\ HandlersInit /\ DiagIdle /\ ProcIdle /\ FileIdle

SpecHandlers == HandlersOnlyInit /\ [][HandlersNext]_vars

\* The controller under the reconciler's dispatch, deleting one object.
DeletionOnlyInit == ShardIdle /\ LeaseInit /\ DeletionInit /\ DiagIdle /\ ProcIdle /\ FileIdle

SpecDeletion == DeletionOnlyInit /\ [][DeletionNext]_vars /\ DeletionFairness

\* The controller under the reconciler's dispatch, with the run history.
DispatchOnlyInit == ShardIdle /\ LeaseInit /\ DispatchInit /\ DiagIdle /\ ProcIdle /\ FileIdle

SpecDispatch == DispatchOnlyInit /\ [][DispatchNext]_vars

\* The failure diagnosis alone, on every directory of the bounded input space.
DiagOnlyInit == ShardIdle /\ LeaseInit /\ ReconIdle /\ DiagInit /\ ProcIdle /\ FileIdle

SpecDiag == DiagOnlyInit /\ [][DiagNext]_vars

\* One Runner alone, running the engine again and again.
ProcOnlyInit == ShardIdle /\ LeaseInit /\ ReconIdle /\ DiagIdle /\ ProcInit /\ FileIdle

SpecProc == ProcOnlyInit /\ [][ProcNext]_vars

\* WriteExtraVar alone, on every file of the bounded input space.
FileOnlyInit == ShardIdle /\ LeaseInit /\ ReconIdle /\ DiagIdle /\ ProcIdle /\ FileInit

SpecFile == FileOnlyInit /\ [][FileNext]_vars

\* ------------------------------------------------------------------------
\* Claims on the shard predicate (checked under SpecShard)
\* ------------------------------------------------------------------------

\* The shard indices of [0, totalShards) that accept the current event's name.
AcceptingShards ==
    {i \in 0..(shTotal - 1) : IsResourceForShard(shKind, shName, i, shTotal)}

\* C7: for every replicaCount >= 1 and every object name the predicate
\* accepts the name for exactly one shard index in [0, replicaCount) (the
\* classes are pairwise disjoint and cover all names); the answer given for
\* an event is that of the name's class, and it is the same whichever of
\* the create, update, delete and generic funcs the event goes to.
C7_ShardPartition ==
    /\ Cardinality(AcceptingShards) = 1
    /\ \A k \in EventKinds :
          IsResourceForShard(k, shName, shTarget, shTotal)
            = (shTarget \in AcceptingShards)
    /\ shDone => (shRes = (shTarget \in AcceptingShards))

\* C7 witness: with several shards, a non-empty name was accepted by the
\* filter of one shard.
C7_Witness ==
    shDone /\ shRes /\ shTotal >= 2 /\ Len(shName) >= 1 /\ shTarget >= 1

\* Reference FNV-1a on four 8-bit limbs, least significant first: xor the
\* byte into limb 1, then multiply by 16777619 = bytes <<147, 1, 0, 1>>
\* (0x93, 0x01, 0x00, 0x01) by schoolbook multiplication modulo 2^32.
RefPrimeBytes == <<147, 1, 0, 1>>

RefColumn(b, k) ==
    LET f[i \in 0..k] == IF i = 0 THEN 0 ELSE f[i - 1] + b[i] * RefPrimeBytes[k + 1 - i]
    IN  f[k]

RefMul(b) ==
    LET c1 == RefColumn(b, 1)
        c2 == RefColumn(b, 2) + (c1 \div 256)
        c3 == RefColumn(b, 3) + (c2 \div 256)
        c4 == RefColumn(b, 4) + (c3 \div 256)
    IN  <<c1 % 256, c2 % 256, c3 % 256, c4 % 256>>

RECURSIVE RefFNV1a(_)
RefFNV1a(s) ==
    IF Len(s) = 0 THEN <<197, 157, 28, 129>>     \* 0x811C9DC5, low byte first
    ELSE LET p == RefFNV1a(SubSeq(s, 1, Len(s) - 1))
         IN  RefMul(<<XorBits(p[1], s[Len(s)], 8), p[2], p[3], p[4]>>)

RefLimbs(b) == <<b[4] * 256 + b[3], b[2] * 256 + b[1]>>

\* C8: hashString is 32-bit FNV-1a (offset basis 2166136261; per byte: xor,
\* then multiply by 16777619 modulo 2^32): the hash the filter computed
\* equals the reference FNV-1a of the name, it is 2166136261 = 0x811C9DC5
\* for "" and 0xE40C292C for "a".
C8_HashIsFNV1a ==
    shDone =>
        /\ shHash = RefLimbs(RefFNV1a(shName))
        /\ (shName = <<>> => shHash = <<33052, 40389>>)
        /\ (shName = <<97>> => shHash = <<58380, 10540>>)

\* C8 witness: the filter has hashed the name "a".
C8_Witness == shDone /\ shName = <<97>> /\ shHash = <<58380, 10540>>

\* ------------------------------------------------------------------------
\* Claims on the lease coordinator (checked under SpecLease)
\* ------------------------------------------------------------------------

WriteStates == {"scanW", "renewW"}

\* This step is the kube.Get half of an acquireLease of r: from the scan
\* loop, or from the renewal goroutine (a failed one restarts its timer).
IsGetStep(r) ==
    \/ pc[r] = "scan" /\ pc'[r] \in {"scanW", "sleep"}
    \/ pc[r] = "hold" /\ pc'[r] = "renewW"
    \/ pc[r] = "hold" /\ pc'[r] = "hold" /\ timer[r] = 0 /\ timer'[r] > 0

\* This step is the kube.Create/Update half of an acquireLease of r.
IsWriteStep(r) ==
    pc[r] \in WriteStates /\ pc'[r] \in {"hold", "sleep"}

GetFollowsTable(r) ==
    LET i == idx[r]
        L == leases[i]
        goesOn == pc'[r] \in WriteStates
    IN  /\ leases' = leases
        /\ \/ ~goesOn /\ lastErr'[r] = "api"
           \/ /\ ~L.exists
              /\ goesOn /\ pend'[r] = [kind |-> "create", age |-> 0]
           \/ /\ L.exists /\ L.holder # r /\ L.age < L.dur
              /\ ~goesOn /\ lastErr'[r] = "held"
           \/ /\ L.exists /\ (L.holder = r \/ L.age >= L.dur)
              /\ goesOn /\ pend'[r] = [kind |-> "update", age |-> 0]

WriteFollowsTable(r) ==
    LET i == idx[r]
        asRead == IF pend[r].kind = "create" THEN ~leases[i].exists ELSE fresh[r]
    IN  \/ /\ lastErr'[r] = "nil"
           /\ asRead
           /\ leases' = [leases EXCEPT ![i] =
                            [exists |-> TRUE, holder |-> r, age |-> pend[r].age,
                             dur |-> leaseDurationSeconds]]
        \/ /\ lastErr'[r] = "conflict" /\ ~asRead /\ leases' = leases
        \/ /\ lastErr'[r] = "api" /\ leases' = leases

\* C1: acquireLease(index) by replica R follows the fencing decision table.
\* Whenever the API server serves its requests: if no lease record exists
\* the call sends a create of holder = R, renewTime = now, duration = 30s;
\* if a record exists whose holder is another identity and now - renewTime
\* < leaseDuration the call fails and leaves the record unchanged;
\* otherwise (holder R, or the other holder's lease expired) it sends an
\* update to holder = R, renewTime = now.  The write succeeds and stores
\* exactly that record when the record is still as the call read it; the
\* only other outcomes are an error with the record left unchanged (the
\* request was not served, or another writer got in between).
C1_AcquireLeaseFencing ==
    [][\A r \in Replicas :
          /\ IsGetStep(r) => GetFollowsTable(r)
          /\ IsWriteStep(r) => WriteFollowsTable(r)]_vars

\* C1 witness: the table's three rows have been taken: replica r holds the
\* lease of index 0 it wrote, replica q was rejected on an unexpired lease
\* of another holder and sleeps.
C1_Witness ==
    \E r, q \in Replicas :
        /\ r # q
        /\ pc[r] = "hold" /\ idx[r] = 0 /\ lastErr[r] = "nil"
        /\ leases[0].exists /\ leases[0].holder = r
        /\ leases[0].age = leaseRenewalInterval
        /\ pc[q] = "sleep" /\ idx[q] = 0 /\ lastErr[q] = "held"

Owners(i) == {r \in Replicas : Owns(r, i)}

\* C2 as stated: at every moment and for every shard index at most one
\* live replica owns that index.
C2_AtMostOneOwner == \A i \in Shards : Cardinality(Owners(i)) <= 1

\* C2 as amended: a replica becomes the owner of index i (its
\* acquireAndHoldShard returns i) only by a write that lands while the
\* lease record of i is absent or expired (now - renewTime >= duration),
\* and that names it the holder; never while another replica holds an
\* unexpired record of i.  Two live owners of one index exist only after
\* such an expiry or deletion.
C2_OwnedOnlyFromFreeOrExpired ==
    [][\A r \in Replicas :
          (pc[r] = "scanW" /\ pc'[r] = "hold") =>
              /\ \/ ~leases[idx[r]].exists
                 \/ leases[idx[r]].age >= leases[idx[r]].dur
              /\ leases'[idx[r]].exists /\ leases'[idx[r]].holder = r
              /\ \A q \in Owners(idx[r]) \ {r} :
                    ~(leases[idx[r]].exists /\ leases[idx[r]].holder = q
                        /\ leases[idx[r]].age < leases[idx[r]].dur)]_vars

\* C2 witness: two live replicas own the same index, the later one being
\* the holder the record names.
C2_Witness ==
    \E i \in Shards : \E r, q \in Owners(i) :
        r # q /\ leases[i].exists /\ leases[i].holder = r

\* This step ends a renewal attempt of r with an error.
RenewalErrors(r) ==
    \/ pc[r] = "renewW" /\ pc'[r] = "hold" /\ lastErr'[r] # "nil"
    \/ pc[r] = "hold" /\ pc'[r] = "hold" /\ timer[r] = 0 /\ timer'[r] > 0

\* C3: whenever a background renewal attempt returns an error the replica
\* cancels its provider context in the same breath, so that it no longer
\* owns (reconciles under) the index; a cancelled context stays cancelled
\* for as long as the process lives.
C3_RenewalFailureCancels ==
    [][\A r \in Replicas :
          /\ RenewalErrors(r) => (cancelled'[r] /\ ~Owns(r, idx[r])')
          /\ (cancelled[r] /\ pc'[r] # "exited") => cancelled'[r]]_vars

\* C3 witness: a renewal of r was rejected because another replica took
\* the lease over, and r's provider context is cancelled (no signal came).
C3_Witness ==
    \E r \in Replicas :
        /\ pc[r] = "hold" /\ lastErr[r] = "held" /\ cancelled[r] /\ ~sig[r]
        /\ leases[idx[r]].holder # r

\* The last acquireLease of r's renewal loop failed (which cancels the
\* provider context, see C27).
RenewalFailed(r) == Acquired(r) /\ lastErr[r] # "nil"

\* C23: a replica that holds index i and gets the shutdown signal sends
\* the delete of the lease record of i before it cancels the provider
\* context and exits (unless a renewal of its own failed, or the process
\* is killed, before the goroutine gets to the signal); a delete that is
\* served removes the record, and from then on an acquireLease(i) of any
\* other replica that is served takes the create path and succeeds,
\* whatever the age the record had: it does not wait for the expiry.
C23_ReleaseThenTakeover ==
    [][\A r \in Replicas :
          /\ (Exit(r) /\ sig[r] /\ ~RenewalFailed(r)) => pc[r] = "stopped"
          /\ pc'[r] = "stopped" => pc[r] \in {"released", "stopped"}
          /\ (pc'[r] = "released" /\ pc[r] # "released") => (pc[r] = "hold" /\ sig[r])
          /\ (ReleaseLeaseWith(r, TRUE) /\ ~cancelled[r]) => ~leases'[idx[r]].exists
          /\ (ScanGetWith(r, TRUE) /\ ~leases[idx[r]].exists)
                => (pc'[r] = "scanW" /\ pend'[r].kind = "create")
          /\ (ScanWriteWith(r, TRUE) /\ pend[r].kind = "create"
                /\ ~leases[idx[r]].exists)
                => (pc'[r] = "hold" /\ leases'[idx[r]].exists
                    /\ leases'[idx[r]].holder = r)]_vars

\* C23 witness: a replica has released its index on the signal and has
\* cancelled the provider context, and the other replica, whose Get found
\* no record, is about to create it.
C23_Witness ==
    \E r, q \in Replicas :
        /\ r # q /\ pc[r] = "stopped" /\ sig[r] /\ cancelled[r]
        /\ pc[q] = "scanW" /\ idx[q] = idx[r] /\ pend[q].kind = "create"
        /\ ~leases[idx[r]].exists

\* C24 as stated: a lease record is deleted only by its current holder: a
\* step that removes the record of index i is the release of a replica
\* that got the shutdown signal, and the record names that replica as its
\* holder.
C24_DeletedOnlyByHolder ==
    [][\A i \in Shards :
          (leases[i].exists /\ ~leases'[i].exists)
             => \E r \in Replicas :
                   /\ pc[r] = "hold" /\ sig[r] /\ idx[r] = i
                   /\ pc'[r] = "released"
                   /\ leases[i].holder = r]_vars

\* r is in the loop of acquireAndHoldShard.
Scanning(r) == pc[r] \in {"scan", "scanW", "sleep"}

\* C26: a shutdown signal that reaches a replica while acquireAndHoldShard
\* is scanning stops the loop: the process is terminated and makes no
\* further attempt.  The other form of the signal, the cancellation of the
\* provider context, does not occur during the scan: only the renewal
\* goroutine of a replica that has acquired an index cancels it.
C26_SignalStopsScan ==
    /\ [](\A r \in Replicas : cancelled[r] => Acquired(r))
    /\ [][\A r \in Replicas :
             /\ (Scanning(r) /\ Signal(r)) => pc'[r] = "terminated"
             /\ pc[r] = "terminated" => pc'[r] = "terminated"]_vars

\* C26 witness: a replica was terminated by the signal during its scan,
\* while the other replica holds an index.
C26_Witness ==
    \E r, q \in Replicas :
        /\ pc[r] = "terminated"
        /\ pc[q] = "hold" /\ leases[idx[q]].holder = q

\* This step is an acquireLease of r's renewal loop, or its first half.
RenewalAttempt(r) ==
    /\ pc[r] = "hold" /\ timer[r] = 0
    /\ pc'[r] = "renewW" \/ (pc'[r] = "hold" /\ timer'[r] = leaseRenewalInterval)

\* C27 as stated: once the provider context of a replica is cancelled, by
\* the signal branch or by a failed renewal, its renewal loop makes no
\* further renewal attempt, and the process does not exit before it has
\* attempted the release of its lease.
C27_CancelStopsRenewal ==
    [][\A r \in Replicas :
          cancelled[r] =>
             /\ ~RenewalAttempt(r)
             /\ pc'[r] = "exited" => pc[r] = "stopped"]_vars

\* This step is an acquireLease of q returning success.
Succeeds(q) == IsWriteStep(q) /\ lastErr'[q] = "nil"

\* An acquireLease of p on index i has read the record and not yet written.
UnderWay(p, i) == pc[p] \in WriteStates /\ idx[p] = i

\* C31 as stated: of the acquireLease calls that different replicas have
\* under way on one index at the same time, at most one returns success:
\* a call returns success only if no other call has written the record
\* since it was read.
C31_AtMostOneSucceeds ==
    [][\A q \in Replicas : Succeeds(q) => fresh[q]]_vars

\* C31 as amended: a call that returns success outdates the read of every
\* other call under way on the index and leaves a record in place; a
\* create that finds a record and an update of an outdated read are
\* rejected and leave the record as it is; so a second call returns
\* success only if it is a create and the record the first one wrote has
\* been deleted again (released on shutdown) before the create arrives.
C31_AtMostOneUnlessReleased ==
    [][\A q \in Replicas :
          /\ Succeeds(q) =>
                /\ fresh[q] \/ (pend[q].kind = "create" /\ ~leases[idx[q]].exists)
                /\ \A p \in Replicas \ {q} :
                      UnderWay(p, idx[q]) => (~fresh'[p] /\ leases'[idx[q]].exists)
          /\ (IsWriteStep(q) /\ ~fresh[q]
                /\ (pend[q].kind = "update" \/ leases[idx[q]].exists))
                => (lastErr'[q] # "nil" /\ leases' = leases)]_vars

\* C31 witness: two replicas had a call under way on index 0; one holds
\* it, the write of the other was rejected by the API server.
C31_Witness ==
    \E r, q \in Replicas :
        /\ r # q /\ pc[r] = "hold" /\ idx[r] = 0 /\ lastErr[r] = "nil"
        /\ leases[0].exists /\ leases[0].holder = r
        /\ pc[q] = "sleep" /\ idx[q] = 0 /\ lastErr[q] = "conflict"

\* Two live replicas both believe they own the index of r, and the record
\* names the other one, q.
Displaced(r, q) ==
    /\ r # q /\ Owns(r, idx[r]) /\ Owns(q, idx[r])
    /\ leases[idx[r]].exists /\ leases[idx[r]].holder = q

\* This step ends a renewal attempt of r.
RenewalEnds(r) ==
    \/ pc[r] = "renewW" /\ pc'[r] = "hold"
    \/ pc[r] = "hold" /\ pc'[r] = "hold" /\ timer[r] = 0 /\ timer'[r] > 0

\* C33 as stated: whenever two live replicas both believe they own an
\* index, the next renewal attempt of the one the record does not name
\* fails and cancels its provider context: dual ownership never survives
\* a completed renewal attempt of the displaced replica.
C33_DisplacedFailsRenewal ==
    [][\A r, q \in Replicas :
          (Displaced(r, q) /\ RenewalEnds(r)) => cancelled'[r]]_vars

\* C33 as amended: the renewal attempt of the displaced replica fails and
\* cancels its provider context whenever it finds the holder's record
\* unexpired, or the record written again since it was read.  It returns
\* success only when the holder's record has itself expired (the holder
\* has not renewed for the lease duration): then it takes the record
\* over, and the two replicas have changed places.
C33_DisplacedFailsUnlessExpired ==
    [][\A r, q \in Replicas :
          Displaced(r, q) =>
             /\ (RenewalEnds(r) /\ pc[r] = "hold") => cancelled'[r]
             /\ (pc[r] = "hold" /\ pc'[r] = "renewW")
                   => leases[idx[r]].age >= leases[idx[r]].dur
             /\ (RenewalEnds(r) /\ pc[r] = "renewW") =>
                   \/ cancelled'[r] /\ lastErr'[r] # "nil" /\ leases' = leases
                   \/ /\ leases[idx[r]].age >= leases[idx[r]].dur /\ fresh[r]
                      /\ leases'[idx[r]].holder = r /\ Displaced(q, r)']_vars

\* C33 witness: the renewal of the displaced replica has found the record
\* held by the other one and has cancelled the provider context; the
\* other one owns the index alone.
C33_Witness ==
    \E r, q \in Replicas :
        /\ r # q /\ pc[r] = "hold" /\ cancelled[r] /\ lastErr[r] = "held" /\ ~sig[r]
        /\ Owns(q, idx[r]) /\ leases[idx[r]].holder = q
        /\ leases[idx[r]].age < leases[idx[r]].dur

\* This step is the release of r, and it removes the record of its index.
DeletesOwnIndex(r) ==
    /\ pc[r] = "hold" /\ pc'[r] = "released"
    /\ leases[idx[r]].exists /\ ~leases'[idx[r]].exists

\* C34 as stated: on graceful shutdown a replica has stopped reconciling
\* by the time its lease is released: the step that deletes the record of
\* its index leaves its provider context cancelled.
C34_CancelledBeforeRelease ==
    [][\A r \in Replicas : DeletesOwnIndex(r) => cancelled'[r]]_vars

\* This step builds the controller of r.
ControllerBuilt(r) == ~filter[r].installed /\ filter'[r].installed

\* C35: a replica has a controller only once its acquireAndHoldShard has
\* returned: the controller is built in the step in which an acquireLease
\* of its scan returns success; the index returned is one of
\* 0 .. replicaCount - 1 and is the index of the record that acquireLease
\* has just written with the replica as holder; and the event filter is
\* built with exactly that index and replicaCount, for as long as the
\* process lives.
C35_FilterOfAcquiredIndex ==
    /\ [](\A r \in Replicas :
             /\ filter[r].installed <=> Acquired(r)
             /\ filter[r].installed =>
                   /\ idx[r] \in 0..(ReplicasCount - 1)
                   /\ filter[r].targetShard = idx[r]
                   /\ filter[r].totalShards = ReplicasCount)
    /\ [][\A r \in Replicas :
             /\ ControllerBuilt(r) =>
                   /\ pc[r] = "scanW" /\ lastErr'[r] = "nil" /\ idx'[r] = idx[r]
                   /\ leases'[idx[r]] = NewLease(r, pend[r].age)
                   /\ \A i \in Shards \ {idx[r]} : leases'[i] = leases[i]
             /\ (filter[r].installed /\ filter'[r].installed)
                   => filter'[r] = filter[r]]_vars

\* C35 witness: one replica reconciles under index 0, the other, which
\* was turned away from index 0, under index 1, each with the record of
\* its index.
C35_Witness ==
    \E r, q \in Replicas :
        /\ filter[r] = [installed |-> TRUE, targetShard |-> 1,
                        totalShards |-> ReplicasCount]
        /\ filter[q].installed /\ filter[q].targetShard = 0
        /\ leases[1].holder = r /\ leases[0].holder = q
        /\ ~cancelled[r] /\ ~cancelled[q]

\* This step ends an acquireLease of r's scan with an error.
ScanAttemptFails(r) ==
    /\ pc[r] \in {"scan", "scanW"} /\ Live(r)'
    /\ pc'[r] \notin {"scanW", "hold"}

\* C36 as stated: the scan takes the indices in ascending order from 0
\* and returns the first one whose acquireLease succeeds; after a failed
\* attempt it goes on to the next index without sleeping, and only after
\* the attempt on the last index has failed it sleeps the retry interval
\* and starts again at index 0.
C36_SleepOnlyAfterFullPass ==
    [][\A r \in Replicas :
          /\ (pc[r] = "scanW" /\ pc'[r] = "hold") => idx'[r] = idx[r]
          /\ ScanAttemptFails(r) =>
                IF idx[r] + 1 < ReplicasCount
                THEN pc'[r] = "scan" /\ idx'[r] = idx[r] + 1
                ELSE pc'[r] = "sleep" /\ idx'[r] = idx[r]
          /\ (pc[r] = "sleep" /\ pc'[r] = "scan") => idx'[r] = 0]_vars

\* ------------------------------------------------------------------------
\* Claims on the acquisition loop (checked under SpecContended)
\* ------------------------------------------------------------------------

\* An acquireLease(i) of r would not find the record held by another.
Acquirable(r, i) == ~leases[i].exists \/ ~HeldByOther(leases[i], r)

\* C25: acquireAndHoldShard does not give up on contention: the loop is
\* left by the acquisition of an index only, after every failed attempt
\* another one follows, and if some index is, from some time on, free or
\* expired for good, the call returns an index in the end.
C25_AcquisitionNeverGivesUp ==
    /\ [][Scanning(Scanner) =>
             \/ Scanning(Scanner)'
             \/ pc'[Scanner] = "hold" /\ lastErr'[Scanner] = "nil"]_vars
    /\ (pc[Scanner] = "sleep") ~> (pc[Scanner] = "scan")
    /\ \A i \in Shards : (<>[]Acquirable(Scanner, i)) => <>Acquired(Scanner)

\* C25 witness: a replica has acquired an index after an attempt on an
\* index that the outsider held, and the outsider still holds that one.
C25_Witness ==
    \E i \in Shards :
        /\ pc[Scanner] = "hold" /\ idx[Scanner] # i
        /\ leases[idx[Scanner]].holder = Scanner
        /\ leases[i].exists /\ leases[i].holder = Outsider
        /\ leases[i].age < leases[i].dur

\* ------------------------------------------------------------------------
\* Claims on the replicas on schedule (checked under SpecTimely)
\* ------------------------------------------------------------------------

\* C32: as long as the replica that acquired index i is live and its
\* renewals are made on schedule, every one of them succeeds, the record
\* of i names it and never appears expired (now - renewTime < 30 s at all
\* times), its provider context stays uncancelled, and no acquireLease(i)
\* of another replica succeeds.
C32_RenewedLeaseNeverExpires ==
    /\ [](\A r \in Replicas :
             Acquired(r) =>
                /\ leases[idx[r]].exists /\ leases[idx[r]].holder = r
                /\ leases[idx[r]].age < leaseDurationSeconds
                /\ lastErr[r] = "nil" /\ ~cancelled[r])
    /\ [][\A q \in Replicas :
             Succeeds(q) =>
                \A r \in Replicas \ {q} : ~(Acquired(r) /\ idx[r] = idx[q])]_vars

\* C32 witness: the record of a holder is as old as the schedule lets it
\* get, the renewal that will replace it is on its way, and the other
\* replica has just been turned away from that index.
C32_Witness ==
    \E r, q \in Replicas :
        /\ r # q /\ pc[r] = "renewW" /\ leases[idx[r]].holder = r
        /\ leases[idx[r]].age = 3 * TickStep
        /\ pc[q] = "sleep" /\ idx[q] = idx[r] /\ lastErr[q] = "held"

\* The controller of r lets an event of this kind on this name through.
Accepts(r, kind, name) ==
    /\ filter[r].installed
    /\ IsResourceForShard(kind, name, filter[r].targetShard, filter[r].totalShards)

\* Every replica reconciles under an index of its own whose record names it.
AllHeld ==
    /\ \A r \in Replicas :
          /\ Owns(r, idx[r])
          /\ leases[idx[r]].exists /\ leases[idx[r]].holder = r
    /\ \A i \in Shards : \E r \in Replicas : idx[r] = i /\ Acquired(r)
    /\ \A r, q \in Replicas : idx[r] = idx[q] => r = q

\* Every event on every name passes the filter of exactly one replica.
OneReplicaPerName ==
    \A name \in Names : \A kind \in EventKinds :
        Cardinality({r \in Replicas : Accepts(r, kind, name)}) = 1

\* C40: with exactly replicaCount replicas, none of which crashes or is
\* shut down, the time comes after which every index of
\* 0 .. replicaCount - 1 is held by a replica of its own, and every object
\* name is let through by the event filter of exactly one replica.
C40_EveryShardServed == <>[](AllHeld /\ OneReplicaPerName)

\* C40 witness: every index is held, every name has its one replica, and
\* both replicas have names to reconcile.
C40_Witness ==
    /\ AllHeld /\ OneReplicaPerName
    /\ \E r, q \in Replicas : \E n1, n2 \in Names :
          r # q /\ Accepts(r, "Update", n1) /\ Accepts(q, "Delete", n2)

\* ------------------------------------------------------------------------
\* Claims on the controller (checked under SpecRecon)
\* ------------------------------------------------------------------------

\* This step is external.Observe up to its return or to the engine start.
ObserveStep ==
    /\ rpc = "connected" /\ rpc' \in {"returned", "running"}
    /\ ret'.op = "Observe" \/ run'.op = "Observe"

\* This step ends the engine run an Observe under ObserveAndDelete began.
ApplyRunEnds ==
    /\ rpc = "running" /\ rpc' = "returned"
    /\ run.op = "Observe" /\ runnerPolicy = "ObserveAndDelete"

\* C4: under ObserveAndDelete, for an existing object that is not being
\* deleted, whose last-applied snapshot exists and equals the desired
\* parameters and whose Synced condition is True, Observe chooses skip on
\* every call: it writes no extra vars and starts no run, leaves the
\* snapshot and the Synced condition as they are, and returns
\* ResourceExists = ResourceUpToDate = true.  The only other returns are
\* the errors of an API request that is not served (the Get, or the
\* status update of the Available condition), with the object unchanged.
C4_SkipWhenConverged ==
    [][(/\ ObserveStep
        /\ runnerPolicy = "ObserveAndDelete"
        /\ mr.present /\ ~cr.deleted
        /\ mr.lastApplied # 0 /\ mr.lastApplied = cr.desired
        /\ cr.synced = "True")
       => /\ rpc' = "returned" /\ run' = NoRun
          /\ extraVars' = extraVars
          /\ mr'.lastApplied = mr.lastApplied
          /\ mr'.synced = mr.synced
          /\ ret'.err \in {"nil", "get", "status"}
          /\ ret'.err = "nil" => (ret'.exists /\ ret'.upToDate)
          /\ ret'.err # "nil" => mr' = mr]_vars

\* C4 witness: an Observe of a converged object has returned up to date
\* with no run and no extra var written since Init emptied the file.
C4_Witness ==
    /\ rpc = "returned" /\ ret.op = "Observe" /\ ret.err = "nil"
    /\ ret.exists /\ ret.upToDate
    /\ runnerPolicy = "ObserveAndDelete" /\ ~cr.deleted
    /\ mr.lastApplied = cr.desired /\ mr.synced = "True"
    /\ extraVars = "none" /\ run = NoRun

C6_SnapshotOnlyOnSuccess ==
    [][ApplyRunEnds =>
          /\ ret'.err = "nil" => mr'.lastApplied = run.param
          /\ ret'.err = "run" => mr'.lastApplied = run.before]_vars

Supported == {"ObserveAndDelete", "CheckWhenObserve"}

\* C9: the run policy is validated by Init, called from Connect, before
\* any engine run: Connect succeeds only for the names ObserveAndDelete
\* and CheckWhenObserve, which the runner keeps as given, and for a
\* missing annotation, which gives ObserveAndDelete; these are never
\* rejected for their name; any other name makes Connect fail, and after a
\* failed Connect no handler is called, so whenever a handler is called or
\* an engine run is in progress the runner's policy is a supported one.
C9_PolicyValidatedAtInit ==
    [][/\ (rpc = "idle" /\ rpc' = "returned") =>
             /\ ret'.op = "Connect" /\ run = NoRun /\ run' = NoRun
             /\ ret'.err = "nil" =>
                   /\ mr.policy \in Supported \cup {""}
                   /\ runnerPolicy' = IF mr.policy = "" THEN "ObserveAndDelete"
                                                       ELSE mr.policy
             /\ mr.policy \notin Supported \cup {""} => ret'.err # "nil"
             /\ ret'.err = "policy" => mr.policy \notin Supported \cup {""}
       /\ rpc' = "connected" => (ret.err = "nil" /\ runnerPolicy' \in Supported)
       /\ run' # NoRun => (rpc' = "running" /\ runnerPolicy' \in Supported)]_vars

\* C9 witness: Connect has failed on the unsupported name, after Init
\* emptied the extra-vars file, and nothing runs.
C9_Witness ==
    /\ rpc = "returned" /\ ret.op = "Connect" /\ ret.err = "policy"
    /\ mr.policy = "LOL" /\ run = NoRun /\ extraVars = "none"

\* C10: under CheckWhenObserve every Observe writes the "present" marker,
\* enables check mode and starts the engine (it returns without a run only
\* when the marker cannot be written); when the run has succeeded and its
\* output parsed, Observe reports ResourceExists = true, and
\* ResourceUpToDate = true exactly when every host's changed count is 0.
C10_CheckWhenObserve ==
    [][/\ (ObserveStep /\ runnerPolicy = "CheckWhenObserve") =>
             \/ /\ rpc' = "running" /\ run'.op = "Observe"
                /\ run'.check /\ checkMode'
                /\ run'.marker = "present" /\ extraVars' = "present"
             \/ /\ rpc' = "returned" /\ run' = NoRun
                /\ ret'.err = "extravar" /\ extraVars' = extraVars
       /\ (/\ rpc = "running" /\ rpc' = "returned"
           /\ run.op = "Observe" /\ runnerPolicy = "CheckWhenObserve") =>
             /\ ret'.err \in {"nil", "run", "parse"}
             /\ ret'.err = "nil" =>
                   /\ ret'.exists
                   /\ ret'.upToDate = (\A h \in DOMAIN ret'.stats : ret'.stats[h] = 0)]_vars

\* C10 witness: a check-mode Observe has reported "not up to date" on
\* stats where one host changed nothing and another changed something.
C10_Witness ==
    /\ rpc = "returned" /\ ret.op = "Observe" /\ ret.err = "nil"
    /\ runnerPolicy = "CheckWhenObserve" /\ checkMode
    /\ ret.exists /\ ~ret.upToDate
    /\ Len(ret.stats) = 2 /\ ret.stats[1] = 0 /\ ret.stats[2] # 0

\* This step is external.Create or external.Update up to the engine start.
UpdateStep ==
    /\ rpc = "connected" /\ rpc' = "running"
    /\ run'.op \in {"Create", "Update"}

\* C11: every engine run started by Create or Update executes with
\* checkMode = false, whatever was called before on the same runner, in
\* particular after an Observe under CheckWhenObserve left check mode on:
\* the call switches the runner to apply mode before it starts the run,
\* and the run in progress is an apply run until it ends.
C11_UpdateRunsInApplyMode ==
    [][/\ UpdateStep => (~run'.check /\ ~checkMode')
       /\ run'.op \in {"Create", "Update"} => ~run'.check]_vars

\* C11 witness: an Update run is in progress in apply mode on a runner
\* whose preceding Observe under CheckWhenObserve wrote the "present"
\* marker (and with it enabled check mode) after Init emptied the file.
C11_Witness ==
    /\ rpc = "running" /\ run.op = "Update" /\ ~run.check /\ ~checkMode
    /\ runnerPolicy = "CheckWhenObserve" /\ run.marker = "present"

\* C12 as stated: every engine run started by Delete, under any policy and
\* after any calls on the same external client, runs in apply mode with
\* the "absent" marker.
C12_DeleteRunsInApplyMode ==
    [][(rpc = "connected" /\ rpc' = "running" /\ run'.op = "Delete")
          => (~run'.check /\ run'.marker = "absent")]_vars

\* C13 as stated: an object that is being deleted is removed in the end,
\* whatever the engine's runs on the way do (succeed, fail, report any
\* state): no outcome of the engine keeps it from being removed for ever.
C13_DeletionNeverBlocked == (mr.present /\ mr.deleted) ~> ~mr.present

\* Under the ObserveAndDelete policy the deletion does complete, also when
\* every Delete run fails: Observe answers for a deleted object without
\* a run.
DeletionCompletesObserveAndDelete ==
    (mr.present /\ mr.deleted /\ mr.policy # "CheckWhenObserve") ~> ~mr.present

\* An apply run is in progress: one that Create, Update or Observe under
\* ObserveAndDelete started.
ApplyRunUnderWay ==
    /\ rpc = "running"
    /\ run.op \in {"Create", "Update"}
          \/ (run.op = "Observe" /\ runnerPolicy = "ObserveAndDelete")

\* C22: when an apply run (started by Create, Update or the apply path of
\* Observe under ObserveAndDelete) ends, the handler sets the Ready
\* condition of its copy to Available if the run succeeded and to
\* Unavailable with the run's error text as message if it failed, stores
\* it if the status update is served, and returns a non-nil error exactly
\* when the run or the status update failed.
C22_RunOutcomeRecorded ==
    [][\A ok, parsed, st \in BOOLEAN :
          (ApplyRunUnderWay /\ RunReturnsWith(ok, parsed, <<>>, st)) =>
              /\ rpc' = "returned"
              /\ cr'.ready = IF ok THEN "Available" ELSE "Unavailable"
              /\ cr'.message = IF ok THEN "" ELSE errRun
              /\ IF Served(st)
                 THEN mr'.ready = cr'.ready /\ mr'.message = cr'.message
                 ELSE mr' = mr
              /\ (ret'.err # "nil") <=> (~ok \/ ~Served(st))]_vars

\* C22 witness: an Update whose run failed has returned the error, with
\* the Unavailable condition and the run's error text stored.
C22_Witness ==
    /\ rpc = "returned" /\ ret.op = "Update" /\ ret.err = "run"
    /\ mr.ready = "Unavailable" /\ mr.message = errRun
    /\ cr.ready = "Unavailable"

\* ------------------------------------------------------------------------
\* Claims on the handlers (checked under SpecHandlers)
\* ------------------------------------------------------------------------

\* The runner's policy name is none Observe has a case for.
Unsupported == runnerPolicy \notin {"", "ObserveAndDelete", "CheckWhenObserve"}

\* C37: Observe on a runner whose policy name is not a supported one does
\* nothing: whatever the object, the mode and the requests' fate, it
\* returns the empty observation and no error, without writing
\* env/extravars, without starting the engine, without changing the mode
\* or the stored object.
C37_UnsupportedPolicyObservesNothing ==
    [][\A get, upd, wev, st \in BOOLEAN :
          (rpc = "connected" /\ Unsupported
              /\ Apply(ObserveOutcome(get, upd, wev, st)))
             => /\ rpc' = "returned" /\ run' = NoRun
                /\ ret' = Returned("Observe", "nil", FALSE, FALSE, <<>>)
                /\ extraVars' = extraVars /\ checkMode' = checkMode
                /\ mr' = mr /\ cr' = cr]_vars

\* C37 witness: Observe has returned the empty observation for an object
\* that exists, on a runner of an unknown policy in check mode, and the
\* marker of an earlier deletion is still in env/extravars.
C37_Witness ==
    /\ rpc = "returned" /\ runnerPolicy = "LOL" /\ checkMode
    /\ ret = Returned("Observe", "nil", FALSE, FALSE, <<>>)
    /\ mr.present /\ ~mr.deleted /\ extraVars = "absent"

\* This step is Delete up to its return or to the start of the engine.
DeleteStep(wev) == rpc = "connected" /\ Apply(DeleteOutcome(wev))

\* C38: under every policy, Delete whose WriteExtraVar fails returns that
\* error with the engine not started and env/extravars as it was; Delete
\* whose WriteExtraVar succeeds starts the engine over the "absent"
\* marker and returns, when the engine has exited, the error of the run
\* if it failed and nil if it did not, whatever becomes of anything else.
C38_DeleteReturnsItsError ==
    [][/\ DeleteStep(FALSE) =>
             /\ rpc' = "returned" /\ run' = NoRun /\ extraVars' = extraVars
             /\ ret' = Failed("Delete", "extravar")
       /\ DeleteStep(TRUE) =>
             /\ rpc' = "running" /\ run'.op = "Delete" /\ ret' = NoRet
             /\ extraVars' = "absent" /\ run'.marker = "absent"
       /\ \A ok, parsed, st \in BOOLEAN : \A stats \in StatsSet :
             (run.op = "Delete" /\ RunReturnsWith(ok, parsed, stats, st)) =>
                /\ rpc' = "returned" /\ run' = NoRun /\ mr' = mr
                /\ ret' = IF ok THEN Returned("Delete", "nil", FALSE, FALSE, <<>>)
                                ELSE Failed("Delete", "run")]_vars

\* C38 witness: Delete has returned the error of the engine run it
\* started over the "absent" marker, under CheckWhenObserve.
C38_Witness ==
    /\ rpc = "returned" /\ ret = Failed("Delete", "run")
    /\ runnerPolicy = "CheckWhenObserve" /\ extraVars = "absent"
    /\ cr.ready = "Deleting"

\* ------------------------------------------------------------------------
\* Claims on the controller under dispatch (checked under SpecDispatch)
\* ------------------------------------------------------------------------

\* C28 as stated: every engine run that Observe, Create or Update starts
\* executes with the "present" marker in env/extravars, written after the
\* file was last reset and before the run, also when Create or Update is
\* reached after an Observe that returned without writing the marker.
C28_RunsCarryPresentMarker ==
    [][(rpc # "running" /\ rpc' = "running"
        /\ run'.op \in {"Observe", "Create", "Update"})
          => (run'.marker = "present" /\ extraVars' = "present")]_vars

\* This step is an Observe under ObserveAndDelete that chooses skip.
SkipStep ==
    /\ rpc = "returned" /\ ret.op = "Connect" /\ rpc' = "returned"
    /\ runnerPolicy = "ObserveAndDelete" /\ ~cr.deleted
    /\ ret'.op = "Observe" /\ ret'.err = "nil" /\ ret'.exists /\ ret'.upToDate

\* C30 as stated: under ObserveAndDelete, whatever reconciles, spec edits,
\* failed or cancelled runs and crashes came before, Observe chooses skip
\* for a desired value only if an apply run started for exactly that value
\* has succeeded before.
C30_SkipOnlyAfterSuccess ==
    [][SkipStep => cr.desired \in applied]_vars

\* ------------------------------------------------------------------------
\* Claims on the failure diagnosis (checked under SpecDiag)
\* ------------------------------------------------------------------------

\* The events the reference keeps: failed or unreachable, not ignored.
RefKept(es) ==
    SelectSeq(es, LAMBDA e : /\ e.Event \in {"runner_on_failed", "runner_on_unreachable"}
                             /\ ~e.IgnoreErrors)

\* A text between double quotes, as it is.
RefInQuotes(text) == "\"" \o Plain(text) \o "\""

\* A text as a Go double-quoted string literal: from the last piece to
\* the first, a backslash goes before a double quote and a backslash.
RECURSIVE RefLiteralBody(_, _)
RefLiteralBody(text, n) ==
    IF n = 0 THEN ""
    ELSE RefLiteralBody(text, n - 1)
            \o (CASE text[n] = "\"" -> "\\\""
                  [] text[n] = "\\" -> "\\\\"
                  [] OTHER -> text[n])

RefLiteral(text) == "\"" \o RefLiteralBody(text, Len(text)) \o "\""

\* The line of one kept event, its play, task and host rendered by Q.
RefLine(e, Q(_)) ==
    (IF e.Event = "runner_on_failed" THEN "Failed" ELSE "Unreachable")
        \o " on play " \o Q(e.Play) \o ", task " \o Q(e.Task)
        \o ", host " \o Q(e.Host) \o ": " \o Plain(e.Msg)

\* The first n of the lines, joined with "; ".
RECURSIVE RefJoined(_, _)
RefJoined(lines, n) ==
    IF n = 0 THEN ""
    ELSE IF n = 1 THEN lines[1]
    ELSE RefJoined(lines, n - 1) \o "; " \o lines[n]

RefDiagnosis(es, Q(_)) ==
    LET kept == RefKept(es)
        lines == [i \in 1..Len(kept) |-> RefLine(kept[i], Q)]
    IN  RefJoined(lines, Len(lines))

\* The event of the scenario: play test, task file, host testhost, msg
\* fake error.
ScenarioEvent(ignore) ==
    [Event |-> "runner_on_failed", dataOK |-> TRUE, IgnoreErrors |-> ignore,
     Play |-> <<"test">>, Task |-> <<"file">>, Host |-> <<"testhost">>,
     Msg |-> <<"fake error">>]

\* C17 as stated: for every list of job events the diagnosis is the
\* reference with play, task and host between double quotes as they are,
\* and never an error.
C17_DiagnosisAsStated ==
    (dpos = "done" /\ files.ok)
        => diag = [reason |-> RefDiagnosis(evts, RefInQuotes), err |-> "nil"]

\* C17 amended: for every list of job events in which the event_data of
\* every failed / unreachable event decodes, the diagnosis is the
\* reference with play, task and host rendered as Go double-quoted string
\* literals (a double quote and a backslash escaped with a backslash) and
\* the message as it is, the empty string and no error when nothing
\* remains; if the event_data of some failed / unreachable event does not
\* decode, the diagnosis is an error, whether or not the event has
\* ignore_errors set.  The scenario's event gives exactly the scenario's
\* text, and with ignore_errors the empty string.
C17_DiagnosisEqualsReference ==
    /\ (dpos = "done" /\ files.ok)
         => IF \E i \in 1..Len(evts) :
                   /\ evts[i].Event \in {"runner_on_failed", "runner_on_unreachable"}
                   /\ ~evts[i].dataOK
            THEN diag = [reason |-> "", err |-> "unmarshal"]
            ELSE diag = [reason |-> RefDiagnosis(evts, RefLiteral), err |-> "nil"]
    /\ extractFailureReason([evts |-> <<ScenarioEvent(FALSE)>>, err |-> "nil"])
         = [reason |-> "Failed on play \"test\", task \"file\", host \"testhost\": fake error",
            err |-> "nil"]
    /\ extractFailureReason([evts |-> <<ScenarioEvent(TRUE)>>, err |-> "nil"])
         = [reason |-> "", err |-> "nil"]

\* C17 witness: both events of a directory were kept, the first with a
\* double quote in its play and a backslash in its task, the second the
\* scenario's; the diagnosis joined their two lines.
C17_Witness ==
    /\ dpos = "done" /\ files.ok /\ Len(files.list) = 2 /\ Len(evts) = 2
    /\ evts[1].Play = <<"a", "\"", "b">> /\ evts[1].Event = "runner_on_unreachable"
    /\ evts[2] = ScenarioEvent(FALSE)
    /\ diag = [reason |-> "Unreachable on play \"a\\\"b\", task \"c\\\\d\", host \"\\\"\": m\"s"
                             \o "; Failed on play \"test\", task \"file\", host \"testhost\": fake error",
               err |-> "nil"]

\* The positions of the files of the directory that hold a job event.
Good == {i \in DOMAIN files.list : files.list[i] # NoEvent}

\* The position of the k-th of them, in ReadDir's order.
NthGood(k) == CHOOSE i \in Good : Cardinality({j \in Good : j <= i}) = k

\* C39: parseEvents of a directory that can be read returns one event for
\* each file that can be read and decoded, that file's event, in the
\* directory's order, whatever the other files are, and no error; only a
\* directory that cannot be read gives an error, which
\* extractFailureReason reports as the failure of the parsing.
C39_ParseEventsSkipsBadFiles ==
    /\ parseEvents(files).err = "nil" <=> files.ok
    /\ dpos # "dir" =>
          IF files.ok
          THEN /\ Len(evts) = Cardinality(Good)
               /\ \A k \in 1..Len(evts) : evts[k] = files.list[NthGood(k)]
          ELSE evts = <<>>
    /\ dpos = "done" => (diag.err = "parse" <=> ~files.ok)

\* C39 witness: the first file of the directory could not be read, the
\* second holds the event of a failure; parseEvents has returned that
\* event alone and the diagnosis names the failure.
C39_Witness ==
    /\ dpos = "done" /\ files.ok /\ Len(files.list) = MaxFiles
    /\ files.list[1] = NoEvent /\ files.list[MaxFiles] # NoEvent
    /\ evts = <<files.list[MaxFiles]>>
    /\ diag.err = "nil" /\ diag.reason # ""

\* ------------------------------------------------------------------------
\* Claims on Runner.Run (checked under SpecProc)
\* ------------------------------------------------------------------------

\* C14: for every run the two-stage shutdown (Cancel = interrupt, WaitDelay
\* = 10 s) is on the command before the child is started and stays on it;
\* the first signal a child gets is the interrupt, sent when the context
\* is done while the child is running; the kill follows only on a child
\* that is still running when the 10 s since the interrupt have passed,
\* and never comes without the interrupt before it.
C14_TwoStageShutdown ==
    [][/\ child'.state # "none"
            => (dc'.Cancel = "interrupt" /\ dc'.WaitDelay = WaitDelay)
       /\ (child.state = "none" /\ child'.state # "none")
            => (dc' = dc /\ dc.Cancel = "interrupt" /\ dc.WaitDelay = WaitDelay)
       /\ (sent = <<>> /\ sent' # <<>>)
            => (sent' = <<"interrupt">> /\ ctx = "done" /\ child.state = "running")
       /\ (sent # <<>> /\ Len(sent') > Len(sent))
            => (/\ sent' = <<"interrupt", "kill">>
                /\ elapsed >= WaitDelay /\ child.state = "running")]_vars

\* C14 witness: a child that ignored the interrupt was killed after the
\* grace window and died of it.
C14_Witness ==
    /\ sent = <<"interrupt", "kill">> /\ elapsed = WaitDelay
    /\ child = [state |-> "exited", status |-> "signal: killed"]

\* What Run can return for a run nobody cancelled whose child exits with
\* a non-zero status.
GenuineFailures ==
    {RunReturn("exit status 1", extractFailureReason(parseEvents(dir))) : dir \in RunDirs}

\* C15 as stated: what Run returns for a run that was terminated on a
\* cancellation request tells it apart from a genuine failure: it is not
\* among the results of a non-zero exit nobody asked for.
C15_CancelledDistinguishable ==
    (rpos = "returned" /\ sent # <<>>) => out \notin GenuineFailures

\* C16: whenever Wait returns for a child that exited non-zero, Run returns
\* no reader and a non-nil error that carries the process error: with the
\* diagnosed reason appended if the diagnosis of the job_events directory
\* succeeds, and the bare process error if it fails; never the diagnosis
\* error in its place, never success.
C16_ProcessErrorSurvives ==
    [][(rpos = "waiting" /\ rpos' = "returned" /\ child.status # "zero")
          => /\ out'.reader = "nil"
             /\ out'.err.orig = child.status /\ out'.err.orig # "nil"
             /\ \E dir \in RunDirs :
                   LET d == extractFailureReason(parseEvents(dir))
                   IN  /\ out'.err.wrapped = (d.err = "nil")
                       /\ out'.err.reason = IF d.err = "nil" THEN d.reason ELSE ""]_vars

\* C16 witness: a run failed and its job events could not be diagnosed;
\* Run returned the bare process error.
C16_Witness ==
    /\ rpos = "returned" /\ child.status = "exit status 1" /\ sent = <<>>
    /\ out.err = [orig |-> "exit status 1", wrapped |-> FALSE, reason |-> ""]

\* The argument vector a holds flag followed by value.
HasOption(a, flag, value) ==
    \E i \in 1..(Len(a) - 1) : a[i] = flag /\ a[i + 1] = value

C19_OverridesAlwaysWin ==
    rpos # "idle"
        => \A k \in DOMAIN runner.behaviorVars :
              Getenv(dc.Env, k) = runner.behaviorVars[k]

\* C19 amended: for every key of behaviorVars other than ANSIBLE_INVENTORY
\* the child sees the caller's value, whatever the parent's environment
\* holds for it; a key only the parent has keeps the parent's value; and
\* ANSIBLE_INVENTORY is always the hosts file of the run, whatever the
\* caller or the parent supplied for it.
C19_OverridesWinButInventory ==
    rpos # "idle"
        => /\ \A k \in DOMAIN runner.behaviorVars \ {AnsibleInventoryPath} :
                 Getenv(dc.Env, k) = runner.behaviorVars[k]
           /\ \A k \in EnvKeys \ (DOMAIN runner.behaviorVars \cup {AnsibleInventoryPath}) :
                 Getenv(dc.Env, k)
                   = IF \E i \in 1..Len(osEnviron) : osEnviron[i].k = k
                     THEN "parent" ELSE "unset"
           /\ Getenv(dc.Env, AnsibleInventoryPath)
                = IF runner.kind = "playbook" THEN "hosts" ELSE "WorkingDirPath/hosts"

\* C19 witness: a command was built whose caller and parent both supply
\* the roles path and the inventory.
C19_Witness ==
    /\ rpos = "built" /\ DOMAIN runner.behaviorVars = EnvKeys /\ Len(osEnviron) = 2
    /\ Getenv(dc.Env, AnsibleRolesPath) = "behavior"

\* C20: in check mode the child's stdout is connected to stdoutBuf alone
\* and its stderr to nothing, so what it writes reaches the buffer and
\* neither of the provider's streams, and a run that succeeds returns the
\* buffer; in apply mode stdout and stderr are connected to the provider's
\* streams, the buffer stays empty and the reader returned is empty.
C20_OutputRouting ==
    rpos # "idle"
        => IF runner.checkMode
           THEN /\ dc.Stdout = "stdoutBuf" /\ dc.Stderr = "nil"
                /\ osStdout = <<>> /\ osStderr = <<>>
                /\ \A i \in 1..Len(stdoutBuf) : stdoutBuf[i] = "stdout"
                /\ (rpos = "returned" /\ out.err = NoError) => out.reader = stdoutBuf
           ELSE /\ dc.Stdout = "os.Stdout" /\ dc.Stderr = "os.Stderr"
                /\ stdoutBuf = <<>>
                /\ \A i \in 1..Len(osStdout) : osStdout[i] = "stdout"
                /\ \A i \in 1..Len(osStderr) : osStderr[i] = "stderr"
                /\ (rpos = "returned" /\ out.err = NoError) => out.reader = <<>>

\* C20 witness: a check run whose child wrote to stdout and to stderr
\* succeeded and Run returned the buffer with the one chunk of stdout.
C20_Witness ==
    /\ rpos = "returned" /\ runner.checkMode /\ out.err = NoError
    /\ out.reader = <<"stdout">> /\ osStdout = <<>>

\* ------------------------------------------------------------------------
\* Claims on WriteExtraVar (checked under SpecFile)
\* ------------------------------------------------------------------------

\* A call of WriteExtraVar is made.
WriteStep == evCalls' = evCalls + 1

\* The call could neither read nor parse the file.
Unusable == evFile.kind \in {"unreadable", "garbage", "array"}

\* C21: a call of WriteExtraVar(v) that returns nil leaves a file that is a
\* JSON object in which every key other than ansible_provider_meta that
\* was in the file before is still present with the same value and in
\* which ansible_provider_meta is v (a missing file is created); a call on
\* a file that cannot be read or parsed returns an error and leaves the
\* file as it was.
C21_WriteExtraVarMerges ==
    [][WriteStep =>
          /\ evErr' = "nil" =>
                /\ evFile'.kind = "object"
                /\ MetaKey \in DOMAIN evFile'.obj /\ evFile'.obj[MetaKey] = evArg'
                /\ \A k \in DOMAIN evFile.obj \ {MetaKey} :
                      k \in DOMAIN evFile'.obj /\ evFile'.obj[k] = evFile.obj[k]
          /\ Unusable => evErr' # "nil" /\ evFile' = evFile]_vars

\* What of the above the code does keep: the keys, the meta key's value,
\* the file on a failed read or parse, and of the other keys' values the
\* float64 nearest to each.
MergeUpToFloat64 ==
    [][WriteStep =>
          /\ evErr' = "nil" =>
                /\ evFile'.kind = "object"
                /\ DOMAIN evFile'.obj = DOMAIN evFile.obj \cup {MetaKey}
                /\ evFile'.obj[MetaKey] = evArg'
                /\ \A k \in DOMAIN evFile.obj \ {MetaKey} :
                      evFile'.obj[k] = Float64(evFile.obj[k])
          /\ Unusable => evErr' # "nil" /\ evFile' = evFile]_vars

\* A call has returned nil on a file that held 2^53 + 1 under a user's key.
WideNumberRewritten ==
    /\ evErr = "nil" /\ evCalls > 0 /\ evFile.kind = "object"
    /\ \E k \in DOMAIN evFile.obj : evFile.obj[k] = Num(Wide, 0)


\* ------------------------------------------------------------------------
\* Claims on the run identifier (checked under SpecProc)
\* ------------------------------------------------------------------------

\* The value after the last --ident of an argument list.
IdentOf(args) ==
    LET at == {k \in 1..(Len(args) - 1) : args[k] = "--ident"}
    IN  IF at = {} THEN NoId
        ELSE args[(CHOOSE k \in at : \A j \in at : j <= k) + 1]

\* Run generates its id and builds the command.
BuildStep == rpos = "idle" /\ rpos' = "built"

\* Wait returned an error and Run had the failure reason extracted.
DiagnoseStep == rpos = "waiting" /\ rpos' = "returned" /\ WaitError # "nil"

\* C29: every Run generates an identifier no earlier Run of the process
\* had, passes it as the one --ident of its command, and after a failure
\* has the failure reason extracted from
\* <workDir>/artifacts/<the --ident of that same command>/job_events.
C29_FreshRunIdentifier ==
    [][/\ BuildStep =>
            /\ id' \notin ids /\ id' # NoId /\ ids' = ids \cup {id'}
            /\ IdentOf(dc'.Args) = id'
            /\ Cardinality({k \in 1..Len(dc'.Args) : dc'.Args[k] = "--ident"}) = 1
       /\ DiagnoseStep =>
            /\ IdentOf(dc.Args) \in ids
            /\ diagnosed' = <<workDir, "artifacts", IdentOf(dc.Args), "job_events">>
       /\ (rpos \in {"built", "armed", "waiting"}) => (id' = id /\ dc'.Args = dc.Args)]_vars

\* The second Run of the process failed and was diagnosed in its own
\* directory, not in the first Run's.
C29_Witness ==
    /\ rpos = "returned" /\ out.err # NoError /\ Cardinality(ids) = 2
    /\ diagnosed = <<workDir, "artifacts", "uuid-2", "job_events">>
    /\ IdentOf(dc.Args) = "uuid-2"

====
